---- MODULE Spec2Model ----
(***************************************************************************)
(* Model of the restart / retry logic of the ABINIT makers of atomate2:     *)
(*   - BaseAbinitMaker.make / get_response_args and setup_job (jobs/base)  *)
(*   - MrgddbMaker.make / get_response (jobs/mrgddb)                       *)
(*   - resolve_restart_deps of the Scf, NonScf, NonScfWfq and Relax makers *)
(*     (jobs/core)                                                         *)
(*   - the G0W0 flow makers (flows/gw)                                     *)
(*   - MultiMDMaker (vasp/flows/md)                                        *)
(*   - DfptFlowMaker (flows/dfpt)                                          *)
(*   - out_to_in and get_final_structure (abinit/files)                    *)
(*   - to_dict / from_dict of AbinitRuntimeError and UnconvergedError      *)
(*     (utils/common)                                                      *)
(* Each part has its own specification; the variables of the other parts   *)
(* keep their initial values under it.                                     *)
(***************************************************************************)
EXTENDS Integers, Sequences, FiniteSets, TLC

VARIABLES
    max_restarts,   \* settings.ABINIT_MAX_RESTARTS
    job,            \* keyword arguments of the job of the chain that is pending or running
    pc,             \* position of the chain inside BaseAbinitMaker.make
    job_config,     \* JobSetupVars returned by setup_job (history, workdir)
    task_doc,       \* the parsed AbinitTaskDocument of the current run
    response,       \* the Response returned by make
    runs,           \* number of executions of make in the chain so far
    replacements,   \* number of replacement jobs created in the chain so far
    first,          \* keyword arguments of the first job of the chain
    mrg,            \* state of a MrgddbMaker chain
    rd,             \* state of one resolve_restart_deps call
    fl,             \* state of one flow maker make call
    md,             \* state of one MultiMDMaker call
    fcall,          \* state of one call of a function of abinit/files.py
    ser             \* state of one to_dict / from_dict round trip of an error

vars == <<max_restarts, job, pc, job_config, task_doc, response, runs,
          replacements, first, mrg, rd, fl, md, fcall, ser>>

baseVars == <<max_restarts, job, pc, job_config, task_doc, response, runs,
              replacements, first>>

----------------------------------------------------------------------------
(* Python's None and a present value *)
None == <<>>

Some(x) == <<x>>

Get(o) == o[1]

(* Bounds of the model *)
MaxRestarts == 3

MaxInitRestarts == 2

MaxRuns == 8

Structures == {"s1", "s2"}

(* atomate2.abinit.schemas.core.Status *)
Status == {"SUCCESS", "FAILED", "UNCONVERGED"}

----------------------------------------------------------------------------
(* atomate2.abinit.utils.history.JobHistory: the number of logged restarts  *)
(* and of logged starts is all the makers read of it.                      *)
JobHistory == [num_restarts |-> 0, num_starts |-> 0]

log_restart(h) == [h EXCEPT !.num_restarts = @ + 1]

log_start(h) == [h EXCEPT !.num_starts = @ + 1]

run_number(h) == h.num_restarts + 1

----------------------------------------------------------------------------
(* setup_job: the RuntimeError raised when nothing is given to start from *)
SetupRaises(structure, prev_outputs, restart_from) ==
    structure = None /\ prev_outputs = None /\ restart_from = None

(* Faulty variant of lines 62-69: a restart is logged whenever             *)
(* restart_from is given                                                   *)
SetupHistory_LogsEveryRestart(history, restart_from) ==
    LET h == IF history = None THEN JobHistory ELSE Get(history)
    IN  log_start(IF restart_from # None THEN log_restart(h) ELSE h)

(* setup_job: the history after the restart / start logging *)
SetupHistory(history, restart_from) ==
    LET h == IF history = None THEN JobHistory
             ELSE IF restart_from # None THEN log_restart(Get(history))
             ELSE Get(history)
    IN  log_start(h)

(* UnconvergedError(job, msg, abinit_input=, history=): the maker has no    *)
(* report, so the counts and lists are the (absent) arguments.             *)
UnconvergedError(maker, msg, abinit_input, history) ==
    [error_code |-> "Unconverged", job |-> maker, msg |-> msg,
     num_errors |-> None, num_warnings |-> None,
     errors |-> None, warnings |-> None,
     abinit_input |-> abinit_input, restart_info |-> None,
     history |-> history]

(* get_response_args, first branch *)
SuccessArgs ==
    [detour |-> None, addition |-> None, replace |-> None,
     stop_children |-> FALSE, stop_jobflow |-> FALSE, stored_data |-> None]

(* Faulty variants of the test of the second branch: one restart too     *)
(* many, and a budget that is never exhausted.                             *)
RestartsExhausted_OffByOne(history, maxr) == run_number(history) > maxr + 1

RestartsExhausted_Never(history, maxr) == FALSE

(* get_response_args: the test of the second branch *)
RestartsExhausted(history, maxr) == run_number(history) > maxr

(* Faulty variant of the second branch: the error does not carry the last input *)
HaltArgs_NoInput(task_document, history) ==
    [detour |-> None, addition |-> None, replace |-> None,
     stop_children |-> TRUE, stop_jobflow |-> TRUE,
     stored_data |-> Some([error |->
         UnconvergedError("self",
                          <<"Unconverged after", run_number(history), "runs.">>,
                          None, Some(history))])]

(* get_response_args, second branch *)
HaltArgs(task_document, history) ==
    [detour |-> None, addition |-> None, replace |-> None,
     stop_children |-> TRUE, stop_jobflow |-> TRUE,
     stored_data |-> Some([error |->
         UnconvergedError("self",
                          <<"Unconverged after", run_number(history), "runs.">>,
                          task_document.abinit_input, Some(history))])]

(* Faulty variant of the last branch: prev_outputs is not forwarded *)
RestartArgs_NoPrevOutputs(task_document, history, prev_outputs) ==
    [detour |-> None, addition |-> None,
     replace |-> Some([maker |-> "self",
                       structure |-> task_document.structure,
                       restart_from |-> Some(task_document.dir_name),
                       prev_outputs |-> None,
                       history |-> Some(history)]),
     stop_children |-> FALSE, stop_jobflow |-> FALSE, stored_data |-> None]

(* get_response_args, last branch: self.make(...) creates the new job *)
RestartArgs(task_document, history, prev_outputs) ==
    [detour |-> None, addition |-> None,
     replace |-> Some([maker |-> "self",
                       structure |-> task_document.structure,
                       restart_from |-> Some(task_document.dir_name),
                       prev_outputs |-> prev_outputs,
                       history |-> Some(history)]),
     stop_children |-> FALSE, stop_jobflow |-> FALSE, stored_data |-> None]

(* Faulty variant of get_response_args: the budget is tested before the   *)
(* state of the task document                                              *)
get_response_args_BudgetFirst(task_document, history, maxr, prev_outputs) ==
    IF RestartsExhausted(history, maxr) THEN HaltArgs(task_document, history)
    ELSE IF task_document.state = "SUCCESS" THEN SuccessArgs
    ELSE RestartArgs(task_document, history, prev_outputs)

get_response_args(task_document, history, maxr, prev_outputs) ==
    IF task_document.state = "SUCCESS" THEN SuccessArgs
    ELSE IF RestartsExhausted(history, maxr) THEN HaltArgs(task_document, history)
    ELSE RestartArgs(task_document, history, prev_outputs)

----------------------------------------------------------------------------
(* The first job of a chain: any combination of the optional arguments; a  *)
(* history is either absent or one handed over by the caller.              *)
FirstJobs ==
    [maker : {"self"},
     structure : {None} \cup {Some(s) : s \in Structures},
     restart_from : {None, Some(0)},
     prev_outputs : {None, Some("prev")},
     history : {None} \cup
               {Some([num_restarts |-> r, num_starts |-> r + 1]) :
                    r \in 0..MaxInitRestarts}]

MrgIdle == [pc |-> "idle"]

RdIdle == [pc |-> "idle"]

FlIdle == [pc |-> "idle"]

MdIdle == [pc |-> "idle"]

FcallIdle == [pc |-> "idle"]

SerIdle == [pc |-> "idle"]

InitBase ==
    /\ max_restarts \in 0..MaxRestarts
    /\ job \in FirstJobs
    /\ first = job
    /\ pc = "pending"
    /\ job_config = None
    /\ task_doc = None
    /\ response = None
    /\ runs = 0
    /\ replacements = 0

Init ==
    /\ InitBase
    /\ md = MdIdle
    /\ fcall = FcallIdle
    /\ ser = SerIdle
    /\ mrg = MrgIdle
    /\ rd = RdIdle
    /\ fl = FlIdle

(* make, lines 178-184: setup_job *)
SetupJob ==
    /\ pc = "pending"
    /\ runs < MaxRuns
    /\ runs' = runs + 1
    /\ task_doc' = None
    /\ response' = None
    /\ IF SetupRaises(job.structure, job.prev_outputs, job.restart_from)
       THEN /\ pc' = "raised"
            /\ job_config' = None
       ELSE /\ pc' = "setup"
            /\ job_config' = Some([history |-> SetupHistory(job.history, job.restart_from),
                                   workdir |-> runs + 1])
    /\ UNCHANGED <<max_restarts, job, replacements, first, mrg, rd, fl, md, fcall, ser>>

(* make, lines 187-193: write_abinit_input_set, which raises RuntimeError  *)
(* when the generated input set does not validate                          *)
WriteInputs ==
    /\ pc = "setup"
    /\ \E valid \in BOOLEAN : pc' = IF valid THEN "written" ELSE "raised"
    /\ UNCHANGED <<max_restarts, job, job_config, task_doc, response, runs,
                   replacements, first, mrg, rd, fl, md, fcall, ser>>

(* make, lines 196-200: run_abinit *)
RunAbinit ==
    /\ pc = "written"
    /\ pc' = "ran"
    /\ UNCHANGED <<max_restarts, job, job_config, task_doc, response, runs,
                   replacements, first, mrg, rd, fl, md, fcall, ser>>

(* make, lines 203-210: AbinitTaskDocument.from_directory; the state and   *)
(* the final structure are what the run produced                           *)
ParseOutputs ==
    /\ pc = "ran"
    /\ \E st \in Status, s \in Structures :
          task_doc' = Some([state |-> st,
                            structure |-> Some(s),
                            dir_name |-> Get(job_config).workdir,
                            run_number |-> run_number(Get(job_config).history),
                            abinit_input |-> Some(Get(job_config).workdir),
                            task_label |-> "self"])
    /\ pc' = "parsed"
    /\ UNCHANGED <<max_restarts, job, job_config, response, runs,
                   replacements, first, mrg, rd, fl, md, fcall, ser>>

(* make, lines 212-229: get_response_args and the Response returned *)
Respond ==
    /\ pc = "parsed"
    /\ LET args == get_response_args(Get(task_doc), Get(job_config).history,
                                     max_restarts, job.prev_outputs)
       IN  /\ response' = Some([output |-> task_doc,
                                detour |-> args.detour,
                                addition |-> args.addition,
                                replace |-> args.replace,
                                stop_children |-> args.stop_children,
                                stop_jobflow |-> args.stop_jobflow,
                                stored_data |-> args.stored_data])
           /\ replacements' = IF args.replace # None THEN replacements + 1
                              ELSE replacements
    /\ pc' = "responded"
    /\ UNCHANGED <<max_restarts, job, job_config, task_doc, runs, first, mrg, rd, fl, md, fcall, ser>>

(* Faulty variant: the next job of the chain is started while the outputs *)
(* of the run are not parsed yet                                           *)
Replace_BeforeParsing ==
    /\ pc = "ran"
    /\ job' = [job EXCEPT !.restart_from = Some(Get(job_config).workdir),
                          !.history = Some(Get(job_config).history)]
    /\ pc' = "pending"
    /\ UNCHANGED <<max_restarts, job_config, task_doc, response, runs,
                   replacements, first, mrg, rd, fl, md, fcall, ser>>

(* The workflow engine puts the replacement job in the place of the job    *)
(* that returned it; it is the next job of the chain to run.               *)
Replace ==
    /\ pc = "responded"
    /\ Get(response).replace # None
    /\ job' = Get(Get(response).replace)
    /\ pc' = "pending"
    /\ UNCHANGED <<max_restarts, job_config, task_doc, response, runs,
                   replacements, first, mrg, rd, fl, md, fcall, ser>>

Next ==
    \/ SetupJob
    \/ WriteInputs
    \/ RunAbinit
    \/ ParseOutputs
    \/ Respond
    \/ Replace

Spec == Init /\ [][Next]_vars

(* The workflow engine runs every job it holds and every step of a running *)
(* job is taken.                                                           *)
SpecLive == Spec /\ WF_vars(Next)

----------------------------------------------------------------------------
(* MrgddbMaker (jobs/mrgddb.py).                                           *)
(* Python values held by prev_outputs: a str is its characters, a list its *)
(* items; iterating a str yields its one-character strings.                *)
PyStr(chars) == [t |-> "str", v |-> chars]

PyList(items) == [t |-> "list", v |-> items]

Iter(x) ==
    IF x.t = "list" THEN x.v
    ELSE [i \in 1..Len(x.v) |-> PyStr(<<x.v[i]>>)]

RECURSIVE ConcatAll(_)
ConcatAll(ss) == IF ss = <<>> THEN <<>> ELSE Head(ss) \o ConcatAll(Tail(ss))

(* Faulty variant of line 90: the items of the first sublist only *)
Flatten_FirstSublist(prev_outputs) ==
    PyList(IF Iter(prev_outputs) = <<>> THEN <<>>
           ELSE Iter(Iter(prev_outputs)[1]))

(* make, line 90: [item for sublist in prev_outputs for item in sublist] *)
Flatten(prev_outputs) ==
    PyList(ConcatAll([i \in 1..Len(Iter(prev_outputs)) |->
                          Iter(Iter(prev_outputs)[i])]))

MaxSubLen == 2

MaxOuterLen == 2

MrgDirs == {PyStr(<<"d", "1">>), PyStr(<<"d", "2">>)}

SeqsUpTo(S, n) == UNION {[1..k -> S] : k \in 0..n}

(* prev_outputs as DfptFlowMaker passes it: a list of lists of directories *)
NestedDirLists ==
    {PyList(outer) :
        outer \in SeqsUpTo({PyList(sub) : sub \in SeqsUpTo(MrgDirs, MaxSubLen)},
                           MaxOuterLen)}

(* The parameters of MrgddbMaker.make, lines 73-78 *)
MrgMakeParams == {"prev_outputs", "restart_from", "history"}

(* A first Merge-DDB job: keywords not passed take the default None *)
MrgFirstJobs ==
    [kw : {MrgMakeParams},
     structure : {None},
     prev_outputs : {None} \cup {Some(l) : l \in NestedDirLists},
     restart_from : {None, Some(0)},
     history : {None, Some([num_restarts |-> 0, num_starts |-> 1])}]

(* get_response, lines 140-143 *)
MrgSuccessResponse(task_document) ==
    [output |-> Some(task_document), replace |-> None,
     stop_children |-> FALSE, stop_jobflow |-> FALSE, stored_data |-> None]

(* get_response, lines 161-173: the restart job is made for every run that *)
(* is not SUCCESS; max_restarts is not read.                               *)
MrgRestartResponse(task_document, history, prev_outputs) ==
    [output |-> Some(task_document),
     replace |-> Some([kw |-> {"structure", "restart_from", "prev_outputs", "history"},
                       structure |-> task_document.structure,
                       restart_from |-> Some(task_document.dir_name),
                       prev_outputs |-> Some(prev_outputs),
                       history |-> Some(history)]),
     stop_children |-> FALSE, stop_jobflow |-> FALSE, stored_data |-> None]

get_response(task_document, history, maxr, prev_outputs) ==
    IF task_document.state = "SUCCESS" THEN MrgSuccessResponse(task_document)
    ELSE MrgRestartResponse(task_document, history, prev_outputs)

BaseIdle ==
    /\ max_restarts = 0
    /\ job = None
    /\ first = None
    /\ pc = "idle"
    /\ job_config = None
    /\ task_doc = None
    /\ response = None
    /\ runs = 0
    /\ replacements = 0

InitMrgddb ==
    /\ BaseIdle
    /\ md = MdIdle
    /\ fcall = FcallIdle
    /\ ser = SerIdle
    /\ \E mr \in 0..MaxRestarts, j \in MrgFirstJobs :
          mrg = [pc |-> "pending", max_restarts |-> mr, job |-> j, first |-> j,
                 prev_outputs |-> None, config |-> None, input_set |-> None,
                 task_doc |-> None, response |-> None, error |-> "", runs |-> 0,
                 replacements |-> 0]
    /\ rd = RdIdle
    /\ fl = FlIdle

(* make, lines 73-99: the call of make with the job's keywords, the        *)
(* flattening of prev_outputs and setup_job                                *)
MrgSetupJob ==
    /\ mrg.pc = "pending"
    /\ mrg.runs < MaxRuns
    /\ IF ~(mrg.job.kw \subseteq MrgMakeParams)
       THEN \* make() got an unexpected keyword argument
            mrg' = [mrg EXCEPT !.pc = "raised", !.error = "TypeError",
                               !.runs = @ + 1]
       ELSE IF mrg.job.prev_outputs = None
       THEN \* 'NoneType' object is not iterable
            mrg' = [mrg EXCEPT !.pc = "raised", !.error = "TypeError",
                               !.runs = @ + 1]
       ELSE mrg' = [mrg EXCEPT
                       !.pc = "setup",
                       !.runs = @ + 1,
                       !.prev_outputs = Some(Flatten(Get(mrg.job.prev_outputs))),
                       !.input_set = None,
                       !.task_doc = None,
                       !.response = None,
                       !.config = Some([history |-> SetupHistory(mrg.job.history,
                                                                 mrg.job.restart_from),
                                        workdir |-> mrg.runs + 1])]
    /\ UNCHANGED <<baseVars, rd, fl, md, fcall, ser>>

(* make, lines 102-107: write_mrgddb_input_set *)
MrgWriteInputs ==
    /\ mrg.pc = "setup"
    /\ mrg' = [mrg EXCEPT !.pc = "written",
                          !.input_set = Some([prev_outputs |-> Get(mrg.prev_outputs),
                                              restart_from |-> mrg.job.restart_from])]
    /\ UNCHANGED <<baseVars, rd, fl, md, fcall, ser>>

(* make, lines 110-113: run_mrgddb *)
MrgRun ==
    /\ mrg.pc = "written"
    /\ mrg' = [mrg EXCEPT !.pc = "ran"]
    /\ UNCHANGED <<baseVars, rd, fl, md, fcall, ser>>

(* make, lines 116-123: the task document of the run *)
MrgParseOutputs ==
    /\ mrg.pc = "ran"
    /\ \E st \in {"SUCCESS", "FAILED"}, s \in Structures :
          mrg' = [mrg EXCEPT
                     !.pc = "parsed",
                     !.task_doc = Some([state |-> st,
                                        structure |-> Some(s),
                                        dir_name |-> Get(mrg.config).workdir,
                                        run_number |-> run_number(Get(mrg.config).history),
                                        task_label |-> "self"])]
    /\ UNCHANGED <<baseVars, rd, fl, md, fcall, ser>>

(* make, lines 125-130: the Response of get_response is returned *)
MrgRespond ==
    /\ mrg.pc = "parsed"
    /\ LET r == get_response(Get(mrg.task_doc), Get(mrg.config).history,
                             mrg.max_restarts, Get(mrg.prev_outputs))
       IN  mrg' = [mrg EXCEPT
                      !.pc = "responded",
                      !.response = Some(r),
                      !.replacements = IF r.replace # None THEN @ + 1 ELSE @]
    /\ UNCHANGED <<baseVars, rd, fl, md, fcall, ser>>

(* The workflow engine runs the replacement job in place of the job *)
MrgReplace ==
    /\ mrg.pc = "responded"
    /\ Get(mrg.response).replace # None
    /\ mrg' = [mrg EXCEPT !.pc = "pending", !.job = Get(Get(mrg.response).replace)]
    /\ UNCHANGED <<baseVars, rd, fl, md, fcall, ser>>

NextMrgddb ==
    \/ MrgSetupJob
    \/ MrgWriteInputs
    \/ MrgRun
    \/ MrgParseOutputs
    \/ MrgRespond
    \/ MrgReplace

SpecMrgddb == InitMrgddb /\ [][NextMrgddb]_vars

----------------------------------------------------------------------------
(* resolve_restart_deps of the makers of jobs/core.py.                     *)
(* A file of the previous output directory: out_<ext>[.nc] (step 0) or     *)
(* out_TIM<step>_<ext>[.nc].                                               *)
File(step, ext, nc) == [step |-> step, ext |-> ext, nc |-> nc]

MaxTimStep == 2

Exts == {"WFK", "DEN", "WFQ"}

(* abipy irdvars_for_ext: the input variable that reads a file of ext *)
irdvars_for_ext(ext) ==
    CASE ext = "WFK" -> "irdwfk"
      [] ext = "DEN" -> "irdden"
      [] ext = "WFQ" -> "irdwfq"

IrdVars == {irdvars_for_ext(e) : e \in Exts}

(* abipy Directory.has_abiext: the out_<ext> or out_<ext>.nc file of the   *)
(* directory, None when there is none                                      *)
has_abiext(outdir, ext) ==
    LET fs == {f \in outdir : f.step = 0 /\ f.ext = ext}
    IN  IF fs = {} THEN None ELSE Some(CHOOSE f \in fs : TRUE)

(* abipy Directory.path_in(name) and os.path.exists: the file named        *)
(* exactly out_DEN                                                         *)
out_den_exists(outdir) == File(0, "DEN", FALSE) \in outdir

(* abipy Directory.find_last_timden_file: the out_TIM?_DEN file of the     *)
(* highest step, None when there is none                                   *)
find_last_timden_file(outdir) ==
    LET fs == {f \in outdir : f.step > 0 /\ f.ext = "DEN"}
    IN  IF fs = {} THEN None
        ELSE Some(CHOOSE f \in fs : \A g \in fs : g.step <= f.step)

(* The maker's out_to_in: the file is placed in the input directory under  *)
(* its name with "out" replaced by "in"; the destination is returned       *)
out_to_in(indir, f) ==
    [indir |-> indir \cup {[src |-> f, name |-> File(f.step, f.ext, f.nc)]},
     dest |-> Some(File(f.step, f.ext, f.nc))]

(* The maker's out_to_in_tim: the file is placed under the given name *)
out_to_in_tim(indir, f, in_file_name) ==
    [indir |-> indir \cup {[src |-> f, name |-> in_file_name]},
     dest |-> Some(in_file_name)]

(* The maker's remove_restart_vars *)
remove_restart_vars(input_vars, exts) ==
    input_vars \ {irdvars_for_ext(e) : e \in exts}

(* abinit_input.set_vars(irdvars) *)
set_vars(input_vars, irdvar) == input_vars \cup {irdvar}

(* Faulty variant of the loop of the Scf maker: DEN is tried first *)
ScfRestartFile_DenFirst(outdir) ==
    IF has_abiext(outdir, "DEN") # None
    THEN Some([file |-> Get(has_abiext(outdir, "DEN")),
               irdvars |-> irdvars_for_ext("DEN")])
    ELSE IF has_abiext(outdir, "WFK") # None
    THEN Some([file |-> Get(has_abiext(outdir, "WFK")),
               irdvars |-> irdvars_for_ext("WFK")])
    ELSE None

(* ScfMaker.resolve_restart_deps, lines 51-59: for ext in ("WFK", "DEN"),  *)
(* the first extension with a file; None stands for the for-else           *)
ScfRestartFile(outdir) ==
    IF has_abiext(outdir, "WFK") # None
    THEN Some([file |-> Get(has_abiext(outdir, "WFK")),
               irdvars |-> irdvars_for_ext("WFK")])
    ELSE IF has_abiext(outdir, "DEN") # None
    THEN Some([file |-> Get(has_abiext(outdir, "DEN")),
               irdvars |-> irdvars_for_ext("DEN")])
    ELSE None

(* restart_extension of NonScfMaker (line 97) and NonScfWfqMaker (148) *)
restart_extension(maker) == IF maker = "NonScfWfq" THEN "WFQ" ELSE "WFK"

(* Faulty variant: the variable of the restart extension itself is set *)
NonScfIrdvars_OfExtension(maker) == irdvars_for_ext(restart_extension(maker))

(* NonScfMaker.resolve_restart_deps, line 120 *)
NonScfIrdvars(maker) == irdvars_for_ext("WFK")

(* Faulty variant of the Relax maker: the disabled WFK branch is active *)
RelaxRestart_WfkEnabled(outdir, indir) ==
    IF has_abiext(outdir, "WFK") # None
    THEN LET o == out_to_in(indir, Get(has_abiext(outdir, "WFK")))
         IN  [restart_file |-> o.dest, indir |-> o.indir,
              irdvars |-> Some(irdvars_for_ext("WFK"))]
    ELSE IF out_den_exists(outdir)
    THEN LET o == out_to_in(indir, File(0, "DEN", FALSE))
         IN  [restart_file |-> o.dest, indir |-> o.indir,
              irdvars |-> Some(irdvars_for_ext("DEN"))]
    ELSE IF find_last_timden_file(outdir) # None
    THEN LET last_timden == Get(find_last_timden_file(outdir))
             in_file_name == IF last_timden.nc THEN File(0, "DEN", TRUE)
                             ELSE File(0, "DEN", FALSE)
             o == out_to_in_tim(indir, last_timden, in_file_name)
         IN  [restart_file |-> o.dest, indir |-> o.indir,
              irdvars |-> Some(irdvars_for_ext("DEN"))]
    ELSE [restart_file |-> None, indir |-> indir, irdvars |-> None]

(* RelaxMaker.resolve_restart_deps, lines 179-215: the WFK branch is       *)
(* disabled (if False and wfk_file), then out_DEN, then the last TIM?_DEN  *)
RelaxRestart(outdir, indir) ==
    IF out_den_exists(outdir)
    THEN LET o == out_to_in(indir, File(0, "DEN", FALSE))
         IN  [restart_file |-> o.dest, indir |-> o.indir,
              irdvars |-> Some(irdvars_for_ext("DEN"))]
    ELSE IF find_last_timden_file(outdir) # None
    THEN LET last_timden == Get(find_last_timden_file(outdir))
             in_file_name == IF last_timden.nc THEN File(0, "DEN", TRUE)
                             ELSE File(0, "DEN", FALSE)
             o == out_to_in_tim(indir, last_timden, in_file_name)
         IN  [restart_file |-> o.dest, indir |-> o.indir,
              irdvars |-> Some(irdvars_for_ext("DEN"))]
    ELSE [restart_file |-> None, indir |-> indir, irdvars |-> None]

Makers == {"Scf", "NonScf", "NonScfWfq", "Relax"}

(* Output directories of a previous run: at most one file (Fortran or      *)
(* netcdf) per extension, and for a relaxation the TIM?_DEN files of some  *)
(* steps                                                                   *)
OneOf(step, ext) == {{}, {File(step, ext, FALSE)}, {File(step, ext, TRUE)}}

RECURSIVE TimDenSets(_)
TimDenSets(n) ==
    IF n = 0 THEN {{}}
    ELSE {a \cup b : a \in TimDenSets(n - 1), b \in OneOf(n, "DEN")}

OutDirs(maker) ==
    {a \cup b \cup c \cup d :
        a \in OneOf(0, "WFK"), b \in OneOf(0, "DEN"), c \in OneOf(0, "WFQ"),
        d \in IF maker = "Relax" THEN TimDenSets(MaxTimStep) ELSE {{}}}

InitRestartDeps ==
    /\ BaseIdle
    /\ md = MdIdle
    /\ fcall = FcallIdle
    /\ ser = SerIdle
    /\ mrg = MrgIdle
    /\ fl = FlIdle
    /\ \E m \in Makers, reset \in BOOLEAN, v \in SUBSET IrdVars :
         \E o \in OutDirs(m) :
            rd = [pc |-> "call", maker |-> m, reset |-> reset, outdir |-> o,
                  vars0 |-> v, vars |-> v, indir |-> {}, restart_file |-> None,
                  error |-> "", warning |-> ""]

(* ScfMaker.resolve_restart_deps *)
ScfResolveRestartDeps ==
    /\ rd.pc = "call"
    /\ rd.maker = "Scf"
    /\ IF rd.reset
       THEN rd' = [rd EXCEPT !.pc = "done",
                             !.vars = remove_restart_vars(@, {"WFK", "DEN"})]
       ELSE IF ScfRestartFile(rd.outdir) = None
       THEN rd' = [rd EXCEPT !.pc = "raised", !.error = "RestartError"]
       ELSE LET r == Get(ScfRestartFile(rd.outdir))
                o == out_to_in(rd.indir, r.file)
            IN  rd' = [rd EXCEPT !.pc = "done",
                                 !.restart_file = Some(r.file),
                                 !.indir = o.indir,
                                 !.vars = set_vars(@, r.irdvars)]
    /\ UNCHANGED <<baseVars, mrg, fl, md, fcall, ser>>

(* NonScfMaker.resolve_restart_deps, inherited by NonScfWfqMaker *)
NonScfResolveRestartDeps ==
    /\ rd.pc = "call"
    /\ rd.maker \in {"NonScf", "NonScfWfq"}
    /\ IF rd.reset
       THEN rd' = [rd EXCEPT !.pc = "done",
                             !.vars = remove_restart_vars(@, {"WFQ", "WFK"})]
       ELSE LET restart_file == has_abiext(rd.outdir, restart_extension(rd.maker))
            IN  IF restart_file = None
                THEN rd' = [rd EXCEPT !.pc = "raised", !.error = "RestartError"]
                ELSE rd' = [rd EXCEPT
                               !.pc = "done",
                               !.restart_file = restart_file,
                               !.indir = out_to_in(rd.indir, Get(restart_file)).indir,
                               !.vars = set_vars(@, NonScfIrdvars(rd.maker))]
    /\ UNCHANGED <<baseVars, mrg, fl, md, fcall, ser>>

(* RelaxMaker.resolve_restart_deps *)
RelaxResolveRestartDeps ==
    /\ rd.pc = "call"
    /\ rd.maker = "Relax"
    /\ IF rd.reset
       THEN rd' = [rd EXCEPT !.pc = "done",
                             !.vars = remove_restart_vars(@, {"WFK", "DEN"})]
       ELSE LET r == RelaxRestart(rd.outdir, rd.indir)
            IN  IF r.restart_file = None
                THEN rd' = [rd EXCEPT !.pc = "done",
                                      !.warning = "Cannot find the WFK|DEN|TIM?_DEN file"]
                ELSE IF r.irdvars = None
                THEN rd' = [rd EXCEPT !.pc = "raised", !.error = "RuntimeError",
                                      !.indir = r.indir]
                ELSE rd' = [rd EXCEPT !.pc = "done",
                                      !.restart_file = r.restart_file,
                                      !.indir = r.indir,
                                      !.vars = set_vars(@, Get(r.irdvars))]
    /\ UNCHANGED <<baseVars, mrg, fl, md, fcall, ser>>

NextRestartDeps ==
    \/ ScfResolveRestartDeps
    \/ NonScfResolveRestartDeps
    \/ RelaxResolveRestartDeps

SpecRestartDeps == InitRestartDeps /\ [][NextRestartDeps]_vars

----------------------------------------------------------------------------
(* The G0W0 flow makers of flows/gw.py.                                    *)
(* A job made by maker.make(...): its uuid is the number of jobs made      *)
(* before it in the call plus one; arguments not passed are None.          *)
MaxScrMakers == 2

MaxSigmaMakers == 2

FlowDirs == {"dirA", "dirB"}

(* job.output.dir_name: a reference to the output of the job *)
DirNameRef(j) == [uuid |-> j.uuid, attr |-> "dir_name"]

(* prev_outputs given as one reference, and as a list of references *)
OneRef(r) == Some([list |-> FALSE, refs |-> <<r>>])

RefList(rs) == Some([list |-> TRUE, refs |-> rs])

FlowJob(uuid, maker, structure, restart_from, prev_outputs, mode) ==
    [uuid |-> uuid, maker |-> maker, structure |-> structure,
     restart_from |-> restart_from, prev_outputs |-> prev_outputs,
     mode |-> mode]

(* scf_maker.make(structure, restart_from=restart_from), lines 55 and 107 *)
ScfJob(uuid, structure, restart_from) ==
    FlowJob(uuid, <<"scf_maker">>, Some(structure), restart_from, None, None)

(* nscf_maker.make(prev_outputs=scf_job.output.dir_name, mode="uniform"),  *)
(* lines 56-58 and 108-110                                                 *)
NscfJob(uuid, scf_job) ==
    FlowJob(uuid, <<"nscf_maker">>, None, None, OneRef(DirNameRef(scf_job)),
            Some("uniform"))

(* scr_maker.make(prev_outputs=nscf_job.output.dir_name), lines 59, 113 *)
ScrJob(uuid, maker, nscf_job) ==
    FlowJob(uuid, maker, None, None, OneRef(DirNameRef(nscf_job)), None)

(* Faulty variant: the sigma job is not given the screening directory *)
SigmaJob_NoScreening(uuid, maker, nscf_job, scr_job) ==
    FlowJob(uuid, maker, None, None,
            RefList(<<DirNameRef(nscf_job), DirNameRef(nscf_job)>>), None)

(* sigma_maker.make(prev_outputs=[nscf_job.output.dir_name,                *)
(* scr_job.output.dir_name]), lines 60-62 and 116-118                      *)
SigmaJob(uuid, maker, nscf_job, scr_job) ==
    FlowJob(uuid, maker, None, None,
            RefList(<<DirNameRef(nscf_job), DirNameRef(scr_job)>>), None)

(* Faulty variant of the job list: screening placed before nscf *)
G0W0FlowJobs_ScrFirst(scf_job, nscf_job, scr_job, sigma_job) ==
    <<scf_job, scr_job, nscf_job, sigma_job>>

(* Flow([scf_job, nscf_job, scr_job, sigma_job], name=self.name), line 64 *)
G0W0FlowJobs(scf_job, nscf_job, scr_job, sigma_job) ==
    <<scf_job, nscf_job, scr_job, sigma_job>>

InitFlows ==
    /\ BaseIdle
    /\ md = MdIdle
    /\ fcall = FcallIdle
    /\ ser = SerIdle
    /\ mrg = MrgIdle
    /\ rd = RdIdle
    /\ \E m \in {"G0W0", "G0W0Convergence"},
          s \in Structures,
          r \in {None} \cup {Some(d) : d \in FlowDirs},
          ns \in 0..MaxScrMakers, ng \in 0..MaxSigmaMakers :
         /\ m = "G0W0" => (ns = 1 /\ ng = 1)
         /\ fl = [pc |-> "call", maker |-> m, structure |-> s,
                  restart_from |-> r, n_scr |-> ns, n_sigma |-> ng,
                  scf_job |-> None, nscf_job |-> None, scr_job |-> None,
                  sigma_job |-> None, n_made |-> 0, i_scr |-> 0, i_sigma |-> 0,
                  jobs |-> <<>>, flow |-> None]

(* G0W0Maker.make, line 55 *)
G0W0ScfJob ==
    /\ fl.pc = "call"
    /\ fl.maker = "G0W0"
    /\ fl' = [fl EXCEPT !.pc = "scf", !.n_made = @ + 1,
                        !.scf_job = Some(ScfJob(fl.n_made + 1, fl.structure,
                                                fl.restart_from))]
    /\ UNCHANGED <<baseVars, mrg, rd, md, fcall, ser>>

(* G0W0Maker.make, lines 56-58 *)
G0W0NscfJob ==
    /\ fl.pc = "scf"
    /\ fl.maker = "G0W0"
    /\ fl' = [fl EXCEPT !.pc = "nscf", !.n_made = @ + 1,
                        !.nscf_job = Some(NscfJob(fl.n_made + 1, Get(fl.scf_job)))]
    /\ UNCHANGED <<baseVars, mrg, rd, md, fcall, ser>>

(* G0W0Maker.make, line 59 *)
G0W0ScrJob ==
    /\ fl.pc = "nscf"
    /\ fl.maker = "G0W0"
    /\ fl' = [fl EXCEPT !.pc = "scr", !.n_made = @ + 1,
                        !.scr_job = Some(ScrJob(fl.n_made + 1, <<"scr_maker">>,
                                                Get(fl.nscf_job)))]
    /\ UNCHANGED <<baseVars, mrg, rd, md, fcall, ser>>

(* G0W0Maker.make, lines 60-62 *)
G0W0SigmaJob ==
    /\ fl.pc = "scr"
    /\ fl.maker = "G0W0"
    /\ fl' = [fl EXCEPT !.pc = "sigma", !.n_made = @ + 1,
                        !.sigma_job = Some(SigmaJob(fl.n_made + 1, <<"sigma_maker">>,
                                                    Get(fl.nscf_job), Get(fl.scr_job)))]
    /\ UNCHANGED <<baseVars, mrg, rd, md, fcall, ser>>

(* G0W0Maker.make, line 64 *)
G0W0Return ==
    /\ fl.pc = "sigma"
    /\ fl.maker = "G0W0"
    /\ fl' = [fl EXCEPT !.pc = "done",
                        !.flow = Some([jobs |-> G0W0FlowJobs(Get(fl.scf_job),
                                                             Get(fl.nscf_job),
                                                             Get(fl.scr_job),
                                                             Get(fl.sigma_job)),
                                       name |-> "G0W0 calculation"])]
    /\ UNCHANGED <<baseVars, mrg, rd, md, fcall, ser>>

(* G0W0ConvergenceMaker.make, line 107 *)
ConvScfJob ==
    /\ fl.pc = "call"
    /\ fl.maker = "G0W0Convergence"
    /\ fl' = [fl EXCEPT !.pc = "scf", !.n_made = @ + 1,
                        !.scf_job = Some(ScfJob(fl.n_made + 1, fl.structure,
                                                fl.restart_from))]
    /\ UNCHANGED <<baseVars, mrg, rd, md, fcall, ser>>

(* G0W0ConvergenceMaker.make, lines 108-111 *)
ConvNscfJob ==
    /\ fl.pc = "scf"
    /\ fl.maker = "G0W0Convergence"
    /\ LET nscf_job == NscfJob(fl.n_made + 1, Get(fl.scf_job))
       IN  fl' = [fl EXCEPT !.pc = "scr_loop", !.n_made = @ + 1,
                            !.nscf_job = Some(nscf_job),
                            !.jobs = <<Get(fl.scf_job), nscf_job>>]
    /\ UNCHANGED <<baseVars, mrg, rd, md, fcall, ser>>

(* G0W0ConvergenceMaker.make, lines 112-114: one turn of the outer loop *)
ConvScrJob ==
    /\ fl.pc = "scr_loop"
    /\ fl.maker = "G0W0Convergence"
    /\ fl.i_scr < fl.n_scr
    /\ LET scr_job == ScrJob(fl.n_made + 1, <<"scr_makers", fl.i_scr + 1>>,
                             Get(fl.nscf_job))
       IN  fl' = [fl EXCEPT !.pc = IF fl.n_sigma = 0 THEN "scr_loop" ELSE "sigma_loop",
                            !.n_made = @ + 1,
                            !.i_scr = @ + 1,
                            !.i_sigma = 0,
                            !.scr_job = Some(scr_job),
                            !.jobs = Append(@, scr_job)]
    /\ UNCHANGED <<baseVars, mrg, rd, md, fcall, ser>>

(* G0W0ConvergenceMaker.make, lines 115-119: one turn of the inner loop *)
ConvSigmaJob ==
    /\ fl.pc = "sigma_loop"
    /\ fl.maker = "G0W0Convergence"
    /\ fl.i_sigma < fl.n_sigma
    /\ LET sigma_job == SigmaJob(fl.n_made + 1, <<"sigma_makers", fl.i_sigma + 1>>,
                                 Get(fl.nscf_job), Get(fl.scr_job))
       IN  fl' = [fl EXCEPT !.pc = IF fl.i_sigma + 1 = fl.n_sigma THEN "scr_loop"
                                   ELSE "sigma_loop",
                            !.n_made = @ + 1,
                            !.i_sigma = @ + 1,
                            !.sigma_job = Some(sigma_job),
                            !.jobs = Append(@, sigma_job)]
    /\ UNCHANGED <<baseVars, mrg, rd, md, fcall, ser>>

(* G0W0ConvergenceMaker.make, line 121 *)
ConvReturn ==
    /\ fl.pc = "scr_loop"
    /\ fl.maker = "G0W0Convergence"
    /\ fl.i_scr = fl.n_scr
    /\ fl' = [fl EXCEPT !.pc = "done",
                        !.flow = Some([jobs |-> fl.jobs, name |-> "G0W0 calculation"])]
    /\ UNCHANGED <<baseVars, mrg, rd, md, fcall, ser>>

NextFlows ==
    \/ G0W0ScfJob
    \/ G0W0NscfJob
    \/ G0W0ScrJob
    \/ G0W0SigmaJob
    \/ G0W0Return
    \/ ConvScfJob
    \/ ConvNscfJob
    \/ ConvScrJob
    \/ ConvSigmaJob
    \/ ConvReturn

SpecFlows == InitFlows /\ [][NextFlows]_vars

----------------------------------------------------------------------------
(* MultiMDMaker (vasp/flows/md.py).                                        *)
(* Arguments are plain values, strings naming the output of a job, or      *)
(* jobflow OutputReferences with the attributes read from them.            *)
Value(v) == [type |-> "value", val |-> v]

Str(s) == [type |-> "str", val |-> s]

OutputReference(uuid) == [type |-> "ref", uuid |-> uuid, attrs |-> <<>>]

GetAttr(ref, a) == [ref EXCEPT !.attrs = Append(@, a)]

MaxMdMakers == 3

(* uuids of the outputs of flows run before, and previous directories *)
PrevUuids == {101, 102}

MdDirs == {"mdA"}

(* The names of the makers of md_makers *)
MdMakerNames == {"molecular dynamics", "ml md"}

(* Faulty variant of lines 63-68: every run starts from the given inputs *)
MdJobInputs_AlwaysGiven(md_job, structure, prev_dir) ==
    [structure |-> structure, prev_dir |-> prev_dir]

(* make, lines 63-68: the inputs of the next MD job *)
MdJobInputs(md_job, structure, prev_dir) ==
    IF md_job = None
    THEN [structure |-> structure, prev_dir |-> prev_dir]
    ELSE [structure |-> GetAttr(OutputReference(Get(md_job).uuid), "structure"),
          prev_dir |-> Some(GetAttr(OutputReference(Get(md_job).uuid), "dir_name"))]

(* make, lines 69-70: maker.make(md_structure, prev_dir=md_prev_dir) and   *)
(* md_job.name += f" {i}"; a name is the list of its parts.                *)
MdJob(uuid, maker, inputs, i) ==
    [uuid |-> uuid, function |-> "md", name |-> <<maker, i>>,
     structure |-> inputs.structure, prev_dir |-> inputs.prev_dir]

(* make, lines 73-79: md_output(...) and its name *)
MdOutputJob(uuid, md_jobs, prev_traj_ids) ==
    [uuid |-> uuid, function |-> "md_output",
     name |-> <<"molecular dynamics output">>,
     structure |-> GetAttr(OutputReference(md_jobs[Len(md_jobs)].uuid), "structure"),
     vasp_dir |-> GetAttr(OutputReference(md_jobs[Len(md_jobs)].uuid), "dir_name"),
     traj_ids |-> [k \in 1..Len(md_jobs) |-> md_jobs[k].uuid],
     prev_traj_ids |-> prev_traj_ids]

(* Faulty variant of lines 101-102: the string is used as it is *)
AsOutputReference_Unconverted(md_ref) == md_ref

(* restart_from_uuid, lines 101-102 *)
AsOutputReference(md_ref) ==
    IF md_ref.type = "str" THEN OutputReference(md_ref.val) ELSE md_ref

MaxSteps == 5

MaxMdRuns == 3

(* Temperatures given to from_parameters *)
Temps == {300, 600}

(* _split_md, lines 117-121: the step counts of the runs *)
nsteps_runs(nsteps, n_runs) ==
    LET nsteps_run == nsteps \div n_runs
        remaining == nsteps - n_runs * nsteps_run
    IN  [ii \in 1..n_runs |-> IF ii <= remaining THEN nsteps_run + 1
                              ELSE nsteps_run]

(* The sum of the first k items of a list of numbers *)
RECURSIVE SumFirst(_, _)
SumFirst(s, k) == IF k = 0 THEN 0 ELSE SumFirst(s, k - 1) + s[k]

(* _split_md, lines 114-133.  nsteps // n_runs raises ZeroDivisionError    *)
(* for n_runs = 0 and delta_temp / nsteps raises it for nsteps = 0 in the  *)
(* first turn of the temperature loop.  A temperature is the exact         *)
(* fraction <<numerator, nsteps>> of start_temp + delta_temp / nsteps *    *)
(* (steps run so far).                                                     *)
split_md(nsteps, n_runs, start_temp, end_temp) ==
    LET end == IF end_temp = None THEN start_temp ELSE Get(end_temp)
        delta_temp == end - start_temp
    IN  IF n_runs = 0 THEN [error |-> Some("ZeroDivisionError"), runs |-> <<>>]
        ELSE IF nsteps = 0
             THEN [error |-> Some("ZeroDivisionError"), runs |-> <<>>]
             ELSE LET steps == nsteps_runs(nsteps, n_runs)
                      temp(k) == <<start_temp * nsteps
                                     + delta_temp * SumFirst(steps, k), nsteps>>
                  IN  [error |-> None,
                       runs |-> [irun \in 1..n_runs |->
                                    [nsteps |-> steps[irun],
                                     start_temp |-> temp(irun - 1),
                                     end_temp |-> temp(irun)]]]

(* The calls of MultiMDMaker: make, restart_from_uuid and from_parameters *)
MdCalls ==
    {[pc |-> "call", entry |-> "make", md_makers |-> ms, md_ref |-> None,
      structure |-> Value(s), prev_dir |-> d, prev_traj_ids |-> t,
      md_job |-> None, md_jobs |-> <<>>, n_made |-> 0, flow |-> None,
      error |-> None, params |-> None] :
        ms \in SeqsUpTo(MdMakerNames, MaxMdMakers), s \in Structures,
        d \in {None} \cup {Some(Value(x)) : x \in MdDirs},
        t \in {None} \cup {Some(Value(<<u>>)) : u \in PrevUuids}}
    \cup
    {[pc |-> "call", entry |-> "restart_from_uuid", md_makers |-> ms,
      md_ref |-> Some(r), structure |-> Value("unset"), prev_dir |-> None,
      prev_traj_ids |-> None, md_job |-> None, md_jobs |-> <<>>, n_made |-> 0,
      flow |-> None, error |-> None, params |-> None] :
        ms \in SeqsUpTo(MdMakerNames, MaxMdMakers),
        r \in {Str(u) : u \in PrevUuids} \cup {OutputReference(u) : u \in PrevUuids}}
    \cup
    {[pc |-> "call", entry |-> "from_parameters", md_makers |-> <<>>,
      md_ref |-> None, structure |-> Value("unset"), prev_dir |-> None,
      prev_traj_ids |-> None, md_job |-> None, md_jobs |-> <<>>, n_made |-> 0,
      flow |-> None, error |-> None,
      params |-> Some([nsteps |-> ns, n_runs |-> nr, start_temp |-> st,
                       end_temp |-> et])] :
        ns \in 0..MaxSteps, nr \in 0..MaxMdRuns, st \in Temps,
        et \in {None} \cup {Some(x) : x \in Temps}}

InitMD ==
    /\ BaseIdle
    /\ mrg = MrgIdle
    /\ rd = RdIdle
    /\ fl = FlIdle
    /\ fcall = FcallIdle
    /\ ser = SerIdle
    /\ md \in MdCalls

(* restart_from_uuid, lines 101-108: the arguments of self.make; reading   *)
(* an attribute of a str raises AttributeError.                            *)
MdRestartFromUuid ==
    /\ md.pc = "call"
    /\ md.entry = "restart_from_uuid"
    /\ LET md_ref == AsOutputReference(Get(md.md_ref))
       IN  IF md_ref.type # "ref"
           THEN md' = [md EXCEPT !.pc = "raised", !.error = Some("AttributeError")]
           ELSE md' = [md EXCEPT !.pc = "loop",
                                 !.structure = GetAttr(md_ref, "structure"),
                                 !.prev_dir = Some(GetAttr(md_ref, "vasp_dir")),
                                 !.prev_traj_ids =
                                     Some(GetAttr(md_ref, "full_traj_ids"))]
    /\ UNCHANGED <<baseVars, mrg, rd, fl, fcall, ser>>

(* make, lines 60-61 *)
MdMakeCall ==
    /\ md.pc = "call"
    /\ md.entry = "make"
    /\ md' = [md EXCEPT !.pc = "loop", !.md_job = None, !.md_jobs = <<>>]
    /\ UNCHANGED <<baseVars, mrg, rd, fl, fcall, ser>>

(* make, lines 62-71: one turn of the loop *)
MdMakeJob ==
    /\ md.pc = "loop"
    /\ Len(md.md_jobs) < Len(md.md_makers)
    /\ LET i == Len(md.md_jobs) + 1
           md_job == MdJob(md.n_made + 1, md.md_makers[i],
                           MdJobInputs(md.md_job, md.structure, md.prev_dir), i)
       IN  md' = [md EXCEPT !.md_job = Some(md_job),
                            !.md_jobs = Append(@, md_job),
                            !.n_made = @ + 1]
    /\ UNCHANGED <<baseVars, mrg, rd, fl, fcall, ser>>

(* make, lines 73-81: md_jobs[-1] raises IndexError when no MD job was made *)
MdMakeOutputJob ==
    /\ md.pc = "loop"
    /\ Len(md.md_jobs) = Len(md.md_makers)
    /\ IF md.md_jobs = <<>>
       THEN md' = [md EXCEPT !.pc = "raised", !.error = Some("IndexError")]
       ELSE md' = [md EXCEPT !.pc = "output",
                             !.n_made = @ + 1,
                             !.md_jobs = Append(@, MdOutputJob(md.n_made + 1,
                                                               md.md_jobs,
                                                               md.prev_traj_ids))]
    /\ UNCHANGED <<baseVars, mrg, rd, fl, fcall, ser>>

(* make, line 83: Flow(md_jobs, output_job.output, name=self.name) *)
MdReturn ==
    /\ md.pc = "output"
    /\ md' = [md EXCEPT !.pc = "done",
                        !.flow = Some([jobs |-> md.md_jobs,
                                       output |-> OutputReference(
                                           md.md_jobs[Len(md.md_jobs)].uuid),
                                       name |-> "multi md"])]
    /\ UNCHANGED <<baseVars, mrg, rd, fl, fcall, ser>>

(* from_parameters, lines 175-187: one MDMaker per entry of _split_md *)
MdFromParameters ==
    /\ md.pc = "call"
    /\ md.entry = "from_parameters"
    /\ LET p == Get(md.params)
           split == split_md(p.nsteps, p.n_runs, p.start_temp, p.end_temp)
       IN  IF split.error # None
           THEN md' = [md EXCEPT !.pc = "raised", !.error = split.error]
           ELSE md' = [md EXCEPT !.pc = "done",
                                 !.md_makers = split.runs]
    /\ UNCHANGED <<baseVars, mrg, rd, fl, fcall, ser>>

NextMD ==
    \/ MdRestartFromUuid
    \/ MdMakeCall
    \/ MdMakeJob
    \/ MdMakeOutputJob
    \/ MdReturn
    \/ MdFromParameters

SpecMD == InitMD /\ [][NextMD]_vars

----------------------------------------------------------------------------

(* DfptFlowMaker (abinit/flows/dfpt.py).                                   *)
(* A list argument of a job *)
List(items) == [type |-> "list", items |-> items]

(* job.output and job.output.<attr> / job.output[<key>] *)
Output(j) == OutputReference(j.uuid)

OutputAttr(j, attr) == GetAttr(OutputReference(j.uuid), attr)

(* The optional makers of DfptFlowMaker, lines 74-79: present or None *)
DfptMakers(ddk, dde, dte, mrgddb) ==
    [ddk_maker |-> ddk, dde_maker |-> dde, dte_maker |-> dte,
     mrgddb_maker |-> mrgddb]

(* Faulty variant of shg: the merge maker is left out *)
shg_NoMerge == DfptMakers(TRUE, TRUE, TRUE, FALSE)

(* shg, lines 195-210 *)
shg == DfptMakers(TRUE, TRUE, TRUE, TRUE)

(* make, lines 106-114: the static job with the three powerups applied *)
DfptStaticJob(uuid, structure, restart_from) ==
    [uuid |-> uuid, function |-> "static_maker.make",
     args |-> [structure |-> structure, restart_from |-> restart_from],
     powerups |-> <<"update_factory_kwargs", "update_user_kpoints_settings",
                    "update_user_abinit_settings">>]

(* generate_ddk_perts / generate_dde_perts / generate_dte_perts, lines     *)
(* 119-122, 135-138 and 151-156                                            *)
DfptPertsJob(uuid, function, static_job) ==
    [uuid |-> uuid, function |-> function,
     args |-> [gsinput |-> OutputAttr(static_job, "abinit_input")],
     powerups |-> <<>>]

(* run_ddk_rf / run_dde_rf / run_dte_rf, lines 126-130, 142-146, 160-167 *)
DfptCalcsJob(uuid, function, perts, prev_outputs, structure) ==
    [uuid |-> uuid, function |-> function,
     args |-> [perturbations |-> Output(perts), prev_outputs |-> prev_outputs,
               structure |-> structure],
     powerups |-> <<>>]

(* make, lines 162-165 *)
DtePrevOutputs(static_job, dde_calcs) ==
    List(<<List(<<OutputAttr(static_job, "dir_name")>>),
           OutputAttr(dde_calcs, "dirs")>>)

(* make, lines 173-177 *)
DfptMrgddbJob(uuid, dde_calcs, dte_calcs) ==
    [uuid |-> uuid, function |-> "mrgddb_maker.make",
     args |-> [prev_outputs |-> List(<<OutputAttr(dde_calcs, "dirs"),
                                       OutputAttr(dte_calcs, "dirs")>>)],
     powerups |-> <<>>]

(* A call of make on a maker built by shg() or by the constructor *)
DfptCalls ==
    {[pc |-> "call", maker |-> "Dfpt", built_by |-> b, makers |-> m,
      structure |-> s, restart_from |-> r, static_job |-> None,
      ddk_calcs |-> None, dde_calcs |-> None, dte_calcs |-> None,
      jobs |-> <<>>, n_made |-> 0, flow |-> None, error |-> None] :
        b \in {"shg", "DfptFlowMaker"},
        m \in {DfptMakers(k, e, t, g) : k, e, t, g \in BOOLEAN},
        s \in {None} \cup {Some(x) : x \in Structures},
        r \in {None} \cup {Some(d) : d \in FlowDirs}}

InitDfpt ==
    /\ BaseIdle
    /\ mrg = MrgIdle
    /\ rd = RdIdle
    /\ md = MdIdle
    /\ fcall = FcallIdle
    /\ ser = SerIdle
    /\ fl \in DfptCalls
    /\ fl.built_by = "shg" => fl.makers = shg

(* make, lines 106-115 *)
DfptStatic ==
    /\ fl.pc = "call"
    /\ fl.maker = "Dfpt"
    /\ LET static_job == DfptStaticJob(fl.n_made + 1, fl.structure, fl.restart_from)
       IN  fl' = [fl EXCEPT !.pc = "ddk", !.n_made = @ + 1,
                            !.static_job = Some(static_job),
                            !.jobs = <<static_job>>]
    /\ UNCHANGED <<baseVars, mrg, rd, md, fcall, ser>>

(* make, lines 117-131 *)
DfptDdk ==
    /\ fl.pc = "ddk"
    /\ IF fl.makers.ddk_maker
       THEN LET static_job == Get(fl.static_job)
                ddk_perts == DfptPertsJob(fl.n_made + 1, "generate_ddk_perts",
                                          static_job)
                ddk_calcs == DfptCalcsJob(fl.n_made + 2, "run_ddk_rf", ddk_perts,
                                          OutputAttr(static_job, "dir_name"),
                                          fl.structure)
            IN  fl' = [fl EXCEPT !.pc = "dde", !.n_made = @ + 2,
                                 !.ddk_calcs = Some(ddk_calcs),
                                 !.jobs = @ \o <<ddk_perts, ddk_calcs>>]
       ELSE fl' = [fl EXCEPT !.pc = "dde"]
    /\ UNCHANGED <<baseVars, mrg, rd, md, fcall, ser>>

(* make, lines 133-147: ddk_calcs is not bound when there is no ddk_maker; *)
(* dde_perts is appended before the name is read.                          *)
DfptDde ==
    /\ fl.pc = "dde"
    /\ IF fl.makers.dde_maker
       THEN LET static_job == Get(fl.static_job)
                dde_perts == DfptPertsJob(fl.n_made + 1, "generate_dde_perts",
                                          static_job)
            IN  IF fl.ddk_calcs = None
                THEN fl' = [fl EXCEPT !.pc = "raised", !.n_made = @ + 1,
                                      !.jobs = Append(@, dde_perts),
                                      !.error = Some("UnboundLocalError")]
                ELSE LET dde_calcs ==
                             DfptCalcsJob(fl.n_made + 2, "run_dde_rf", dde_perts,
                                 List(<<List(<<OutputAttr(static_job, "dir_name")>>),
                                        OutputAttr(Get(fl.ddk_calcs), "dirs")>>),
                                 fl.structure)
                     IN  fl' = [fl EXCEPT !.pc = "dte", !.n_made = @ + 2,
                                          !.dde_calcs = Some(dde_calcs),
                                          !.jobs = @ \o <<dde_perts, dde_calcs>>]
       ELSE fl' = [fl EXCEPT !.pc = "dte"]
    /\ UNCHANGED <<baseVars, mrg, rd, md, fcall, ser>>

(* make, lines 149-168: dde_calcs is not bound when there is no dde_maker *)
DfptDte ==
    /\ fl.pc = "dte"
    /\ IF fl.makers.dte_maker
       THEN LET static_job == Get(fl.static_job)
                dte_perts == DfptPertsJob(fl.n_made + 1, "generate_dte_perts",
                                          static_job)
            IN  IF fl.dde_calcs = None
                THEN fl' = [fl EXCEPT !.pc = "raised", !.n_made = @ + 1,
                                      !.jobs = Append(@, dte_perts),
                                      !.error = Some("UnboundLocalError")]
                ELSE LET dte_calcs ==
                             DfptCalcsJob(fl.n_made + 2, "run_dte_rf", dte_perts,
                                 DtePrevOutputs(static_job, Get(fl.dde_calcs)),
                                 fl.structure)
                     IN  fl' = [fl EXCEPT !.pc = "mrgddb", !.n_made = @ + 2,
                                          !.dte_calcs = Some(dte_calcs),
                                          !.jobs = @ \o <<dte_perts, dte_calcs>>]
       ELSE fl' = [fl EXCEPT !.pc = "mrgddb"]
    /\ UNCHANGED <<baseVars, mrg, rd, md, fcall, ser>>

(* make, lines 170-179: dde_calcs and dte_calcs are not bound without      *)
(* their makers                                                            *)
DfptMrgddb ==
    /\ fl.pc = "mrgddb"
    /\ IF fl.makers.mrgddb_maker
       THEN IF fl.dde_calcs = None \/ fl.dte_calcs = None
            THEN fl' = [fl EXCEPT !.pc = "raised",
                                  !.error = Some("UnboundLocalError")]
            ELSE fl' = [fl EXCEPT !.pc = "return", !.n_made = @ + 1,
                                  !.jobs = Append(@, DfptMrgddbJob(fl.n_made + 1,
                                                        Get(fl.dde_calcs),
                                                        Get(fl.dte_calcs)))]
       ELSE fl' = [fl EXCEPT !.pc = "return"]
    /\ UNCHANGED <<baseVars, mrg, rd, md, fcall, ser>>

(* make, line 185: Flow(jobs, output=jobs[-1].output, name=self.name) *)
DfptReturn ==
    /\ fl.pc = "return"
    /\ fl' = [fl EXCEPT !.pc = "done",
                        !.flow = Some([jobs |-> fl.jobs,
                                       output |-> Output(fl.jobs[Len(fl.jobs)]),
                                       name |-> IF fl.built_by = "shg"
                                                THEN "Chi2 SHG" ELSE "DFPT"])]
    /\ UNCHANGED <<baseVars, mrg, rd, md, fcall, ser>>

NextDfpt ==
    \/ DfptStatic
    \/ DfptDdk
    \/ DfptDde
    \/ DfptDte
    \/ DfptMrgddb
    \/ DfptReturn

SpecDfpt == InitDfpt /\ [][NextDfpt]_vars

----------------------------------------------------------------------------

(* Functions of abinit/files.py.                                           *)
(* abipy.abio.input_tags, imported at line 10 *)
RELAX == "relax"

MOLECULAR_DYNAMICS == "md"

RunLevels == SUBSET {"scf", "nscf", RELAX, MOLECULAR_DYNAMICS}

(* A file holding a structure: what reading it gives.  run.abo and the GSR *)
(* file are written by abinit while it runs and may be cut short.          *)
StructureFiles ==
    {None} \cup {Some([readable |-> r, structure |-> s]) :
                    r \in BOOLEAN, s \in Structures}

(* abinit_input.json, as written before the run *)
InputFiles ==
    {None} \cup {Some([runlevel |-> l, structure |-> s]) :
                    l \in RunLevels, s \in Structures}

(* The directory given to get_final_structure *)
CalcDirs == [abo : StructureFiles, gsr : StructureFiles, input : InputFiles]

Returned(v) == [value |-> Some(v), error |-> None]

Raised(e) == [value |-> None, error |-> Some(e)]

(* Python's exception classes: NotImplementedError derives from            *)
(* RuntimeError                                                            *)
IsInstance(e, class) ==
    \/ e = class
    \/ e = "NotImplementedError" /\ class = "RuntimeError"

(* load_abinit_input, lines 103-109 *)
load_abinit_input(dir) ==
    IF dir.input = None THEN Raised("NotImplementedError")
    ELSE Returned(Get(dir.input))

(* get_final_structure, lines 168-171 *)
FromInput(dir) ==
    LET abinit_input == load_abinit_input(dir)
    IN  IF abinit_input.error # None THEN Raised(Get(abinit_input.error))
        ELSE IF {MOLECULAR_DYNAMICS, RELAX} \cap Get(abinit_input.value).runlevel = {}
             THEN Returned(Get(abinit_input.value).structure)
             ELSE Raised("RuntimeError")

(* get_final_structure, lines 160-167 *)
FromGsr(dir) ==
    IF dir.gsr # None /\ Get(dir.gsr).readable
    THEN Returned(Get(dir.gsr).structure)
    ELSE FromInput(dir)

(* Faulty variant: the GSR file is read before run.abo *)
get_final_structure_GsrFirst(dir) ==
    IF dir.gsr # None /\ Get(dir.gsr).readable
    THEN Returned(Get(dir.gsr).structure)
    ELSE IF dir.abo # None /\ Get(dir.abo).readable
         THEN Returned(Get(dir.abo).structure)
         ELSE FromInput(dir)

(* get_final_structure, lines 153-171 *)
get_final_structure(dir) ==
    IF dir.abo # None /\ Get(dir.abo).readable
    THEN Returned(Get(dir.abo).structure)
    ELSE FromGsr(dir)

(* Paths: the list of their components, absolute or relative to the        *)
(* working directory                                                       *)
Path(abs, parts) == [abs |-> abs, parts |-> parts]

Cwd == Path(TRUE, <<"cwd">>)

(* file_client.abspath(path, host=...) *)
abspath(path, host) ==
    [path |-> IF path.abs THEN path ELSE Path(TRUE, Cwd.parts \o path.parts),
     host |-> host]

(* os.path.join(dest_dir, in_file), in_file being a file name *)
join(dest_dir, in_file) == Path(dest_dir.abs, Append(dest_dir.parts, in_file))

(* Faulty variant of line 82: a remote source is linked too *)
LinkFile_IgnoringHost(link_files, src_host) == link_files

(* out_to_in, line 82 *)
LinkFile(link_files, src_host) == link_files /\ src_host = None

MaxOutFiles == 3

OutFilePaths == {Path(TRUE, <<"prev", "outdata", "out_DEN">>),
                 Path(FALSE, <<"outdata", "out_WFK">>)}

InFileNames == {"in_DEN", "in_WFK"}

Hosts == {"remote_host"}

(* The calls of get_final_structure and of out_to_in *)
FilesCalls ==
    {[pc |-> "call", function |-> "get_final_structure", dir |-> Some(d),
      result |-> None, out_files |-> <<>>, src_host |-> None,
      indir |-> Path(FALSE, <<"indata">>), link_files |-> TRUE,
      dest_dir |-> None, n_handled |-> 0, operations |-> <<>>] :
        d \in CalcDirs}
    \cup
    {[pc |-> "call", function |-> "out_to_in", dir |-> None, result |-> None,
      out_files |-> fs, src_host |-> h, indir |-> Path(FALSE, <<"indata">>),
      link_files |-> l, dest_dir |-> None, n_handled |-> 0,
      operations |-> <<>>] :
        fs \in SeqsUpTo(OutFilePaths \X InFileNames, MaxOutFiles),
        h \in {None} \cup {Some(x) : x \in Hosts}, l \in BOOLEAN}

InitFiles ==
    /\ BaseIdle
    /\ mrg = MrgIdle
    /\ rd = RdIdle
    /\ fl = FlIdle
    /\ md = MdIdle
    /\ fcall \in FilesCalls
    /\ ser = SerIdle

(* get_final_structure, lines 146-171 *)
GetFinalStructure ==
    /\ fcall.pc = "call"
    /\ fcall.function = "get_final_structure"
    /\ LET r == get_final_structure(Get(fcall.dir))
       IN  fcall' = [fcall EXCEPT !.pc = IF r.error = None THEN "done" ELSE "raised",
                                  !.result = Some(r)]
    /\ UNCHANGED <<baseVars, mrg, rd, fl, md, ser>>

(* out_to_in, line 76 *)
OutToInDestDir ==
    /\ fcall.pc = "call"
    /\ fcall.function = "out_to_in"
    /\ fcall' = [fcall EXCEPT !.pc = "loop",
                              !.dest_dir = Some(abspath(fcall.indir, None).path)]
    /\ UNCHANGED <<baseVars, mrg, rd, fl, md, ser>>

(* out_to_in, lines 78-85: one turn of the loop *)
OutToInFile ==
    /\ fcall.pc = "loop"
    /\ fcall.n_handled < Len(fcall.out_files)
    /\ LET pair == fcall.out_files[fcall.n_handled + 1]
           src_file == abspath(pair[1], fcall.src_host)
           dest_file == join(Get(fcall.dest_dir), pair[2])
           operation ==
               IF LinkFile(fcall.link_files, fcall.src_host)
               THEN [op |-> "link", src |-> src_file, dest |-> dest_file,
                     src_host |-> None]
               ELSE [op |-> "copy", src |-> src_file, dest |-> dest_file,
                     src_host |-> fcall.src_host]
       IN  fcall' = [fcall EXCEPT !.n_handled = @ + 1,
                                  !.operations = Append(@, operation)]
    /\ UNCHANGED <<baseVars, mrg, rd, fl, md, ser>>

(* out_to_in: the loop is over and the function returns *)
OutToInReturn ==
    /\ fcall.pc = "loop"
    /\ fcall.n_handled = Len(fcall.out_files)
    /\ fcall' = [fcall EXCEPT !.pc = "done"]
    /\ UNCHANGED <<baseVars, mrg, rd, fl, md, ser>>

NextFiles ==
    \/ GetFinalStructure
    \/ OutToInDestDir
    \/ OutToInFile
    \/ OutToInReturn

SpecFiles == InitFiles /\ [][NextFiles]_vars

----------------------------------------------------------------------------

(* The errors of abinit/utils/common.py and their dictionaries.            *)
(* Python's truth value of an optional str and of an optional list         *)
TruthyStr(o) == o # None /\ Get(o) # ""

TruthyList(o) == o # None /\ Len(Get(o)) > 0

(* as_dict of an event, an input, a restart info or a history, and         *)
(* MontyDecoder.process_decoded of such a dictionary                       *)
as_dict(obj) == [decoded |-> FALSE, of |-> obj]

process_decoded(d) == d.of

(* AbinitRuntimeError.__init__, lines 101-118 *)
AbinitRuntimeError(err_job, msg, num_errors, num_warnings, errors, warnings) ==
    IF err_job # None /\ Get(err_job).report # None
    THEN [error_code |-> "Error", job |-> err_job, msg |-> msg,
          num_errors |-> Get(Get(err_job).report).num_errors,
          num_warnings |-> Get(Get(err_job).report).num_warnings,
          errors |-> Get(Get(err_job).report).errors,
          warnings |-> Get(Get(err_job).report).warnings]
    ELSE [error_code |-> "Error", job |-> err_job, msg |-> msg,
          num_errors |-> num_errors, num_warnings |-> num_warnings,
          errors |-> errors, warnings |-> warnings]

(* UnconvergedError.__init__, lines 207-210, with ERROR_CODE of line 167;  *)
(* base stands for the attributes set by super().__init__                  *)
NewUnconvergedError(base, abinit_input, restart_info, history) ==
    [error_code |-> "Unconverged", job |-> base.job, msg |-> base.msg,
     num_errors |-> base.num_errors, num_warnings |-> base.num_warnings,
     errors |-> base.errors, warnings |-> base.warnings,
     abinit_input |-> abinit_input, restart_info |-> restart_info,
     history |-> history]

(* AbinitRuntimeError.to_dict, lines 120-139; pmg_serialize adds the       *)
(* @module and @class keys.  A dictionary is a function of its keys.       *)
RuntimeErrorDict(e, class) ==
    LET keys == {"num_errors", "num_warnings", "error_code", "@module", "@class"}
                  \cup (IF TruthyList(e.errors) THEN {"errors"} ELSE {})
                  \cup (IF TruthyList(e.warnings) THEN {"warnings"} ELSE {})
                  \cup (IF TruthyStr(e.msg) THEN {"error_message"} ELSE {})
        AsDicts(items) == [i \in 1..Len(items) |-> as_dict(items[i])]
    IN  [k \in keys |->
            CASE k = "num_errors" -> e.num_errors
              [] k = "num_warnings" -> e.num_warnings
              [] k = "errors" -> Some(AsDicts(Get(e.errors)))
              [] k = "warnings" -> Some(AsDicts(Get(e.warnings)))
              [] k = "error_message" -> e.msg
              [] k = "error_code" -> Some(e.error_code)
              [] k = "@module" -> Some("atomate2.abinit.utils.common")
              [] k = "@class" -> Some(class)]

(* UnconvergedError.to_dict, lines 212-219 *)
UnconvergedErrorDict(e) ==
    LET d == RuntimeErrorDict(e, "UnconvergedError")
        part(o) == IF o # None THEN Some(as_dict(Get(o))) ELSE None
    IN  [k \in DOMAIN d \cup {"abinit_input", "restart_info", "history"} |->
            CASE k = "abinit_input" -> part(e.abinit_input)
              [] k = "restart_info" -> part(e.restart_info)
              [] k = "history" -> part(e.history)
              [] OTHER -> d[k]]

(* e.to_dict() of the class of e *)
to_dict(e) ==
    IF e.error_code = "Unconverged" THEN UnconvergedErrorDict(e)
    ELSE RuntimeErrorDict(e, "AbinitRuntimeError")

(* AbinitRuntimeError.from_dict, lines 146-161 *)
RuntimeErrorFromDict(d) ==
    LET decoded(key) ==
            IF key \in DOMAIN d
            THEN Some([i \in 1..Len(Get(d[key])) |-> process_decoded(Get(d[key])[i])])
            ELSE Some(<<>>)
        msg == IF "error_message" \in DOMAIN d THEN d["error_message"] ELSE None
    IN  Returned(AbinitRuntimeError(None, msg, d["num_errors"], d["num_warnings"],
                                    decoded("errors"), decoded("warnings")))

(* UnconvergedError.from_dict, lines 222-250: d["error_message"] of line   *)
(* 246 raises KeyError when the key is absent                              *)
UnconvergedErrorFromDict(d) ==
    LET decoded(key) ==
            IF key \in DOMAIN d
            THEN Some([i \in 1..Len(Get(d[key])) |-> process_decoded(Get(d[key])[i])])
            ELSE Some(<<>>)
        part(key) ==
            IF key \in DOMAIN d /\ d[key] # None
            THEN Some(process_decoded(Get(d[key]))) ELSE None
    IN  IF "error_message" \notin DOMAIN d THEN Raised("KeyError")
        ELSE Returned(NewUnconvergedError(
                 AbinitRuntimeError(None, d["error_message"], d["num_errors"],
                                    d["num_warnings"], decoded("errors"),
                                    decoded("warnings")),
                 part("abinit_input"), part("restart_info"), part("history")))

(* The from_dict of the class the dictionary names *)
from_dict(d) ==
    IF d["@class"] = Some("UnconvergedError") THEN UnconvergedErrorFromDict(d)
    ELSE RuntimeErrorFromDict(d)

(* The errors a round trip starts from: built with or without a job that   *)
(* has a report, a message, counts, events, an input, a restart info and a *)
(* history                                                                 *)
ErrorObjects ==
    LET jobs == {None, Some([report |-> None]),
                 Some([report |-> Some([num_errors |-> Some(2),
                                        num_warnings |-> Some(0),
                                        errors |-> Some(<<"event">>),
                                        warnings |-> Some(<<>>)])])}
        msgs == {None, Some(""), Some("Unconverged after 2 runs.")}
        counts == {None, Some(0), Some(2)}
        events == {None, Some(<<>>), Some(<<"event">>)}
        runtime_errors ==
            {AbinitRuntimeError(j, m, ne, nw, es, ws) :
                j \in jobs, m \in msgs, ne \in counts, nw \in {None, Some(0)},
                es \in events, ws \in events}
    IN  runtime_errors
        \cup
        {NewUnconvergedError(b, ai, ri, h) :
            b \in {r \in runtime_errors : r.warnings \in {None, Some(<<>>)}},
            ai \in {None, Some("abinit_input")},
            ri \in {None, Some("restart_info")},
            h \in {None, Some("history")}}

InitErrors ==
    /\ BaseIdle
    /\ mrg = MrgIdle
    /\ rd = RdIdle
    /\ fl = FlIdle
    /\ md = MdIdle
    /\ fcall = FcallIdle
    /\ ser \in {[pc |-> "call", error |-> e, dict |-> None, result |-> None] :
                  e \in ErrorObjects}

(* e.to_dict() *)
ErrToDict ==
    /\ ser.pc = "call"
    /\ ser' = [ser EXCEPT !.pc = "dict", !.dict = Some(to_dict(ser.error))]
    /\ UNCHANGED <<baseVars, mrg, rd, fl, md, fcall>>

(* cls.from_dict(d) *)
ErrFromDict ==
    /\ ser.pc = "dict"
    /\ ser' = [ser EXCEPT !.pc = "done", !.result = Some(from_dict(Get(ser.dict)))]
    /\ UNCHANGED <<baseVars, mrg, rd, fl, md, fcall>>

NextErrors == ErrToDict \/ ErrFromDict

SpecErrors == InitErrors /\ [][NextErrors]_vars

-----------------------------------------------------------------------------

(* Properties of the BaseAbinitMaker chain *)

Fresh == first.history = None

Responded == pc = "responded"

Failed == Responded /\ Get(task_doc).state # "SUCCESS"

ThisHistory == Get(job_config).history

Halted == Responded /\ Get(response).replace = None /\ Get(response).stop_jobflow

Succeeded ==
    /\ Responded
    /\ Get(response).replace = None
    /\ ~Get(response).stop_jobflow
    /\ ~Get(response).stop_children

(* C1: in a chain started with history=None the calculation is restarted   *)
(* at most max_restarts times and run at most max_restarts + 1 times.      *)
C1_RetryBound ==
    Fresh => /\ replacements <= max_restarts
             /\ runs <= max_restarts + 1

(* A chain that used its whole budget, and a chain with no budget at all   *)
C1_Witness ==
    /\ Fresh /\ Halted
    /\ max_restarts > 0
    /\ replacements = max_restarts
    /\ runs = max_restarts + 1

(* C2: unless a run raises, the chain reaches a terminal response: success *)
(* (no replacement) or halt (stop_jobflow).                                *)
C2_Termination == ([](pc # "raised")) => <>(Succeeded \/ Halted)

(* A chain that never succeeded and ended in the halt response after       *)
(* several runs                                                            *)
C2_Witness == Halted /\ Failed /\ runs >= 3 /\ replacements >= 2

(* C3: a SUCCESS task document gives the all-empty response, whatever the  *)
(* run number and the restart budget.                                      *)
C3_SuccessResponse ==
    (Responded /\ Get(task_doc).state = "SUCCESS") =>
        /\ Get(response).replace = None
        /\ Get(response).detour = None
        /\ Get(response).addition = None
        /\ Get(response).stop_children = FALSE
        /\ Get(response).stop_jobflow = FALSE
        /\ Get(response).stored_data = None

(* A successful run whose run number already exceeds the budget *)
C3_Witness ==
    /\ Responded
    /\ Get(task_doc).state = "SUCCESS"
    /\ run_number(ThisHistory) > max_restarts
    /\ runs >= 2

(* C4: a failed run with run_number > max_restarts creates no job, stops   *)
(* children and flow, and stores (does not raise) an UnconvergedError with *)
(* the history and the last input; the output is the task document.        *)
C4_HaltResponse ==
    (Failed /\ run_number(ThisHistory) > max_restarts) =>
        /\ Get(response).replace = None
        /\ Get(response).detour = None
        /\ Get(response).addition = None
        /\ Get(response).stop_children = TRUE
        /\ Get(response).stop_jobflow = TRUE
        /\ Get(response).stored_data # None
        /\ LET e == Get(Get(response).stored_data).error
           IN  /\ e.error_code = "Unconverged"
               /\ e.history = Some(ThisHistory)
               /\ e.abinit_input = Some(Get(job_config).workdir)
        /\ Get(response).output = task_doc
        /\ Get(response).output # None

(* A halt after at least one restart *)
C4_Witness ==
    /\ Failed
    /\ run_number(ThisHistory) > max_restarts
    /\ runs >= 2
    /\ Get(response).stored_data # None

(* C5: a failed run with run_number <= max_restarts is replaced by a job   *)
(* of the same maker that restarts from the directory of this run, with    *)
(* the task document's structure, the same prev_outputs and history.       *)
C5_RestartResponse ==
    (Failed /\ run_number(ThisHistory) <= max_restarts) =>
        /\ Get(response).replace =
               Some([maker |-> job.maker,
                     structure |-> Get(task_doc).structure,
                     restart_from |-> Some(Get(job_config).workdir),
                     prev_outputs |-> job.prev_outputs,
                     history |-> Some(ThisHistory)])
        /\ Get(job_config).workdir = runs
        /\ Get(response).detour = None
        /\ Get(response).addition = None
        /\ Get(response).stop_children = FALSE
        /\ Get(response).stop_jobflow = FALSE
        /\ Get(response).stored_data = None

(* A second restart: the directory restarted from is not the first run's *)
C5_Witness ==
    /\ Failed
    /\ run_number(ThisHistory) <= max_restarts
    /\ runs >= 2
    /\ job.prev_outputs # None
    /\ Get(response).replace # None
    /\ Get(Get(response).replace).restart_from = Some(runs)

----------------------------------------------------------------------------
(* Properties of the MrgddbMaker chain *)

(* C6: a Merge-DDB job is replaced at most max_restarts times.             *)
C6_MrgRetryBound == mrg.replacements <= mrg.max_restarts

----------------------------------------------------------------------------
(* Properties of resolve_restart_deps (reset not set) *)

Resolved(m) == rd.pc # "call" /\ rd.maker = m /\ ~rd.reset

OutFiles(ext) == {f \in rd.outdir : f.step = 0 /\ f.ext = ext}

TimDenFiles == {f \in rd.outdir : f.step > 0 /\ f.ext = "DEN"}

(* The call moved exactly the file f to the input directory under the     *)
(* name `name` and added exactly the variable v to the input               *)
Restarted(f, name, v) ==
    /\ rd.pc = "done"
    /\ rd.error = ""
    /\ rd.indir = {[src |-> f, name |-> name]}
    /\ rd.vars = rd.vars0 \cup {v}

(* The call raised RestartError, moved no file and set no variable *)
RestartErrorOnly ==
    /\ rd.pc = "raised"
    /\ rd.error = "RestartError"
    /\ rd.indir = {}
    /\ rd.vars = rd.vars0

(* C7: the Scf maker restarts from the WFK file when there is one (with    *)
(* irdwfk), else from the DEN file (with irdden), else raises RestartError *)
(* without moving a file or setting a variable.                            *)
C7_ScfRestartFile ==
    Resolved("Scf") =>
        IF OutFiles("WFK") # {}
        THEN \E f \in OutFiles("WFK") : Restarted(f, f, "irdwfk")
        ELSE IF OutFiles("DEN") # {}
        THEN \E f \in OutFiles("DEN") : Restarted(f, f, "irdden")
        ELSE RestartErrorOnly

(* A restart of an Scf run that left both a WFK and a DEN file *)
C7_Witness ==
    /\ Resolved("Scf")
    /\ OutFiles("WFK") # {}
    /\ OutFiles("DEN") # {}
    /\ rd.pc = "done"
    /\ "irdwfk" \in rd.vars
    /\ rd.vars0 = {}

(* C8: NonScfMaker restarts only from the WFK file and NonScfWfqMaker only *)
(* from the WFQ file, both with irdwfk; without that file RestartError is  *)
(* raised, no file is moved and no variable is set.                        *)
C8_NonScfRestartFile ==
    /\ Resolved("NonScf") =>
          IF OutFiles("WFK") # {}
          THEN \E f \in OutFiles("WFK") : Restarted(f, f, "irdwfk")
          ELSE RestartErrorOnly
    /\ Resolved("NonScfWfq") =>
          IF OutFiles("WFQ") # {}
          THEN \E f \in OutFiles("WFQ") : Restarted(f, f, "irdwfk")
          ELSE RestartErrorOnly

(* A restart of a WFQ run that left WFQ, WFK and DEN files *)
C8_Witness ==
    /\ Resolved("NonScfWfq")
    /\ OutFiles("WFQ") # {}
    /\ OutFiles("WFK") # {}
    /\ OutFiles("DEN") # {}
    /\ rd.pc = "done"
    /\ rd.vars0 = {}
    /\ rd.vars = {"irdwfk"}

(* C9: the Relax maker never uses a WFK file; it uses out_DEN when it      *)
(* exists, else the last TIM?_DEN file under the name in_DEN.nc or in_DEN  *)
(* after its own suffix, both with irdden; with no file it only warns.     *)
C9_RelaxRestartFile ==
    Resolved("Relax") =>
        IF File(0, "DEN", FALSE) \in rd.outdir
        THEN Restarted(File(0, "DEN", FALSE), File(0, "DEN", FALSE), "irdden")
        ELSE IF TimDenFiles # {}
        THEN \E f \in TimDenFiles :
                /\ \A g \in TimDenFiles : g.step <= f.step
                /\ Restarted(f, File(0, "DEN", f.nc), "irdden")
        ELSE /\ rd.pc = "done"
             /\ rd.error = ""
             /\ rd.warning # ""
             /\ rd.indir = {}
             /\ rd.vars = rd.vars0

(* A relaxation that left a WFK file, no out_DEN and two TIM?_DEN files,   *)
(* the last one in netcdf format                                           *)
C9_Witness ==
    /\ Resolved("Relax")
    /\ OutFiles("WFK") # {}
    /\ File(0, "DEN", FALSE) \notin rd.outdir
    /\ File(1, "DEN", FALSE) \in rd.outdir
    /\ File(2, "DEN", TRUE) \in rd.outdir
    /\ rd.indir = {[src |-> File(2, "DEN", TRUE), name |-> File(0, "DEN", TRUE)]}
    /\ rd.vars0 = {}
    /\ rd.vars = {"irdden"}

----------------------------------------------------------------------------
(* Properties of the G0W0 flows *)

FlowJobs == Get(fl.flow).jobs

(* The position in the job list of the job with uuid u, 0 when absent *)
PositionOf(u) ==
    IF \E i \in 1..Len(FlowJobs) : FlowJobs[i].uuid = u
    THEN CHOOSE i \in 1..Len(FlowJobs) : FlowJobs[i].uuid = u
    ELSE 0

(* The positions of the jobs whose output directory job i takes *)
DependsOn(i) ==
    IF FlowJobs[i].prev_outputs = None THEN <<>>
    ELSE [k \in 1..Len(Get(FlowJobs[i].prev_outputs).refs) |->
             PositionOf(Get(FlowJobs[i].prev_outputs).refs[k].uuid)]

(* C10: G0W0Maker.make returns the four jobs scf, nscf, screening, sigma   *)
(* in this order; nscf takes the scf directory, screening the nscf         *)
(* directory, sigma the nscf and screening directories; only the scf job   *)
(* gets restart_from; every job depends on earlier jobs only.              *)
C10_G0W0Flow ==
    (fl.pc = "done" /\ fl.maker = "G0W0") =>
        /\ Len(FlowJobs) = 4
        /\ \A i, j \in 1..4 : i # j => FlowJobs[i].uuid # FlowJobs[j].uuid
        /\ FlowJobs[1].maker = <<"scf_maker">>
        /\ FlowJobs[2].maker = <<"nscf_maker">>
        /\ FlowJobs[3].maker = <<"scr_maker">>
        /\ FlowJobs[4].maker = <<"sigma_maker">>
        /\ FlowJobs[1].structure = Some(fl.structure)
        /\ FlowJobs[1].restart_from = fl.restart_from
        /\ \A i \in 2..4 : FlowJobs[i].restart_from = None
        /\ DependsOn(1) = <<>>
        /\ DependsOn(2) = <<1>>
        /\ ~Get(FlowJobs[2].prev_outputs).list
        /\ DependsOn(3) = <<2>>
        /\ ~Get(FlowJobs[3].prev_outputs).list
        /\ DependsOn(4) = <<2, 3>>
        /\ Get(FlowJobs[4].prev_outputs).list
        /\ \A i \in 1..4 : \A k \in 1..Len(DependsOn(i)) :
              DependsOn(i)[k] >= 1 /\ DependsOn(i)[k] < i

(* A finished G0W0 flow that was given a directory to restart from *)
C10_Witness ==
    /\ fl.pc = "done"
    /\ fl.maker = "G0W0"
    /\ fl.restart_from # None
    /\ Len(FlowJobs) = 4
    /\ FlowJobs[1].restart_from = fl.restart_from

(* The positions of the jobs of the flow made by the given maker *)
JobsOf(maker) == {i \in 1..Len(FlowJobs) : FlowJobs[i].maker = maker}

(* C11: G0W0ConvergenceMaker.make with S screening and G sigma makers      *)
(* returns 2 + S + S*G jobs: scf, nscf, one screening job per screening    *)
(* maker and one sigma job per pair, which depends on nscf and on the      *)
(* screening job of its pair and is placed after it.                       *)
C11_ConvergenceFlow ==
    (fl.pc = "done" /\ fl.maker = "G0W0Convergence") =>
        /\ Len(FlowJobs) = 2 + fl.n_scr + fl.n_scr * fl.n_sigma
        /\ \A i, j \in 1..Len(FlowJobs) :
              i # j => FlowJobs[i].uuid # FlowJobs[j].uuid
        /\ JobsOf(<<"scf_maker">>) = {1}
        /\ JobsOf(<<"nscf_maker">>) = {2}
        /\ DependsOn(2) = <<1>>
        /\ \A i \in 1..fl.n_scr :
              /\ Cardinality(JobsOf(<<"scr_makers", i>>)) = 1
              /\ \A p \in JobsOf(<<"scr_makers", i>>) : DependsOn(p) = <<2>>
        /\ \A k \in 1..fl.n_sigma :
              /\ Cardinality(JobsOf(<<"sigma_makers", k>>)) = fl.n_scr
              /\ \A i \in 1..fl.n_scr : \A p \in JobsOf(<<"scr_makers", i>>) :
                    /\ Cardinality({q \in JobsOf(<<"sigma_makers", k>>) :
                                       DependsOn(q) = <<2, p>>}) = 1
                    /\ \A q \in JobsOf(<<"sigma_makers", k>>) :
                          DependsOn(q) = <<2, p>> => q > p
        /\ \A q \in 1..Len(FlowJobs) :
              \/ q \in JobsOf(<<"scf_maker">>) \cup JobsOf(<<"nscf_maker">>)
              \/ \E i \in 1..fl.n_scr : q \in JobsOf(<<"scr_makers", i>>)
              \/ \E k \in 1..fl.n_sigma : q \in JobsOf(<<"sigma_makers", k>>)

(* A convergence flow over two screening and two sigma makers *)
C11_Witness ==
    /\ fl.pc = "done"
    /\ fl.maker = "G0W0Convergence"
    /\ fl.n_scr = 2
    /\ fl.n_sigma = 2
    /\ Len(FlowJobs) = 8
    /\ DependsOn(8) = <<2, 6>>

----------------------------------------------------------------------------
(* Properties of MultiMDMaker *)

MdFlowJobs == Get(md.flow).jobs

(* The flow is the chain of one MD job per maker, started from the given   *)
(* inputs, followed by the output job.                                     *)
IsMultiMDFlow(structure, prev_dir, prev_traj_ids) ==
    LET n == Len(md.md_makers)
        out(i, attr) == GetAttr(OutputReference(MdFlowJobs[i].uuid), attr)
    IN  /\ Len(MdFlowJobs) = n + 1
        /\ \A i, j \in 1..(n + 1) : i # j => MdFlowJobs[i].uuid # MdFlowJobs[j].uuid
        /\ \A i \in 1..n :
              /\ MdFlowJobs[i].function = "md"
              /\ MdFlowJobs[i].name = <<md.md_makers[i], i>>
        /\ MdFlowJobs[1].structure = structure
        /\ MdFlowJobs[1].prev_dir = prev_dir
        /\ \A i \in 2..n :
              /\ MdFlowJobs[i].structure = out(i - 1, "structure")
              /\ MdFlowJobs[i].prev_dir = Some(out(i - 1, "dir_name"))
        /\ MdFlowJobs[n + 1].function = "md_output"
        /\ MdFlowJobs[n + 1].structure = out(n, "structure")
        /\ MdFlowJobs[n + 1].vasp_dir = out(n, "dir_name")
        /\ MdFlowJobs[n + 1].traj_ids = [k \in 1..n |-> MdFlowJobs[k].uuid]
        /\ MdFlowJobs[n + 1].prev_traj_ids = prev_traj_ids
        /\ Get(md.flow).output = OutputReference(MdFlowJobs[n + 1].uuid)

(* C12: MultiMDMaker.make with n >= 1 md_makers returns n MD jobs and then *)
(* the output job: the first MD job gets the given structure and prev_dir, *)
(* the i-th the output structure and dir_name of the (i-1)-th, the i-th    *)
(* name ends with i, the output job takes structure and directory of the   *)
(* last MD job, the uuids of the n MD jobs in run order and the given      *)
(* prev_traj_ids, and the flow output is the output job's output; the call *)
(* does not raise.                                                         *)
C12_MultiMDFlow ==
    (md.pc \in {"done", "raised"} /\ md.entry = "make" /\ Len(md.md_makers) >= 1) =>
        /\ md.pc = "done"
        /\ IsMultiMDFlow(md.structure, md.prev_dir, md.prev_traj_ids)

(* A flow of three MD runs continuing a previous trajectory *)
C12_Witness ==
    /\ md.pc = "done"
    /\ md.entry = "make"
    /\ Len(md.md_makers) = 3
    /\ md.prev_dir # None
    /\ md.prev_traj_ids # None
    /\ Len(MdFlowJobs) = 4
    /\ MdFlowJobs[3].name = <<md.md_makers[3], 3>>

(* The uuid named by the argument of restart_from_uuid *)
MdRefUuid ==
    IF Get(md.md_ref).type = "str" THEN Get(md.md_ref).val ELSE Get(md.md_ref).uuid

(* C13: restart_from_uuid builds the flow of make with the referenced      *)
(* output's structure and vasp_dir as structure and prev_dir and with its  *)
(* full_traj_ids as prev_traj_ids; a string is converted to an             *)
(* OutputReference first and gives the same flow as the reference.         *)
C13_RestartFromUuid ==
    (md.pc \in {"done", "raised"} /\ md.entry = "restart_from_uuid"
        /\ Len(md.md_makers) >= 1) =>
        /\ md.pc = "done"
        /\ IsMultiMDFlow(GetAttr(OutputReference(MdRefUuid), "structure"),
                         Some(GetAttr(OutputReference(MdRefUuid), "vasp_dir")),
                         Some(GetAttr(OutputReference(MdRefUuid), "full_traj_ids")))

(* A flow restarted from the uuid given as a string *)
C13_Witness ==
    /\ md.pc = "done"
    /\ md.entry = "restart_from_uuid"
    /\ Get(md.md_ref).type = "str"
    /\ Len(md.md_makers) = 2
    /\ MdFlowJobs[1].structure = GetAttr(OutputReference(Get(md.md_ref).val), "structure")

(* The step counts of the makers returned by from_parameters *)
MdRunSteps == [i \in 1..Len(md.md_makers) |-> md.md_makers[i].nsteps]

(* n_runs step counts that sum to nsteps, differ by at most one and do not *)
(* increase: the first nsteps mod n_runs runs have one step more.          *)
Balanced(steps, nsteps, n_runs) ==
    /\ Len(steps) = n_runs
    /\ SumFirst(steps, Len(steps)) = nsteps
    /\ \A i, j \in 1..Len(steps) :
          /\ steps[i] - steps[j] <= 1
          /\ i < j => steps[i] >= steps[j]
    /\ \A i \in 1..Len(steps) :
          steps[i] = (nsteps \div n_runs) + (IF i <= nsteps % n_runs THEN 1 ELSE 0)

SplitReturned == md.entry = "from_parameters" /\ md.pc \in {"done", "raised"}

(* C14: for every nsteps >= 0 and n_runs >= 1 _split_md returns n_runs     *)
(* entries whose step counts sum to nsteps, differ by at most one and are  *)
(* non-increasing.                                                         *)
C14_SplitBalanced ==
    (SplitReturned /\ Get(md.params).nsteps >= 0 /\ Get(md.params).n_runs >= 1) =>
        /\ md.pc = "done"
        /\ Balanced(MdRunSteps, Get(md.params).nsteps, Get(md.params).n_runs)

(* The split is balanced whenever there is at least one step to run *)
SplitBalancedForPositiveSteps ==
    (SplitReturned /\ Get(md.params).nsteps >= 1 /\ Get(md.params).n_runs >= 1) =>
        /\ md.pc = "done"
        /\ Balanced(MdRunSteps, Get(md.params).nsteps, Get(md.params).n_runs)

----------------------------------------------------------------------------
(* Properties of DfptFlowMaker *)

DfptJobs == Get(fl.flow).jobs

(* The uuids of the jobs whose output an argument refers to *)
RefsIn(x) ==
    IF x.type = "ref" THEN {x.uuid}
    ELSE IF x.type = "list"
         THEN UNION {IF x.items[i].type = "ref" THEN {x.items[i].uuid}
                     ELSE IF x.items[i].type = "list"
                          THEN {x.items[i].items[k].uuid :
                                   k \in {k \in 1..Len(x.items[i].items) :
                                             x.items[i].items[k].type = "ref"}}
                          ELSE {} : i \in 1..Len(x.items)}
         ELSE {}

(* The positions in the flow of the jobs whose directories job i takes as  *)
(* prev_outputs                                                            *)
PrevOutputsOf(i) ==
    {p \in 1..Len(DfptJobs) : DfptJobs[p].uuid \in RefsIn(DfptJobs[i].args.prev_outputs)}

DfptFunctions == [i \in 1..Len(DfptJobs) |-> DfptJobs[i].function]

(* C15: the flow of DfptFlowMaker.shg().make is static, DDK perturbations, *)
(* DDK calculations, DDE perturbations, DDE calculations, DTE              *)
(* perturbations, DTE calculations, Merge-DDB in this order; the DDE       *)
(* calculations depend on the static and DDK outputs, the DTE calculations *)
(* on the static and DDE outputs, the merge job on the DDE and DTE         *)
(* outputs; the flow output is the output of the merge job; the call does  *)
(* not raise.                                                              *)
C15_ShgFlow ==
    (fl.pc \in {"done", "raised"} /\ fl.maker = "Dfpt" /\ fl.built_by = "shg") =>
        /\ fl.pc = "done"
        /\ DfptFunctions = <<"static_maker.make", "generate_ddk_perts", "run_ddk_rf",
                             "generate_dde_perts", "run_dde_rf",
                             "generate_dte_perts", "run_dte_rf",
                             "mrgddb_maker.make">>
        /\ \A i, j \in 1..Len(DfptJobs) : i # j => DfptJobs[i].uuid # DfptJobs[j].uuid
        /\ PrevOutputsOf(3) = {1}
        /\ PrevOutputsOf(5) = {1, 3}
        /\ PrevOutputsOf(7) = {1, 5}
        /\ PrevOutputsOf(8) = {5, 7}
        /\ DfptJobs[8].args.prev_outputs =
               List(<<OutputAttr(DfptJobs[5], "dirs"), OutputAttr(DfptJobs[7], "dirs")>>)
        /\ Get(fl.flow).output = Output(DfptJobs[8])

(* An SHG flow made for a structure *)
C15_Witness ==
    /\ fl.pc = "done"
    /\ fl.maker = "Dfpt"
    /\ fl.built_by = "shg"
    /\ fl.structure # None
    /\ Len(DfptJobs) = 8
    /\ DfptJobs[8].function = "mrgddb_maker.make"

----------------------------------------------------------------------------
(* Properties of the flattening of MrgddbMaker.make *)

(* The job is the first of its chain and was given a list of lists *)
MrgFirstRun == mrg.pc # "idle" /\ mrg.job = mrg.first /\ mrg.job.prev_outputs # None

MrgGiven == Get(mrg.first.prev_outputs).v

(* The number of items of the sublists before sublist i *)
RECURSIVE MrgOffset(_)
MrgOffset(i) == IF i = 1 THEN 0 ELSE MrgOffset(i - 1) + Len(MrgGiven[i - 1].v)

(* flat holds the items of the sublists of the given list, every one once  *)
(* and in the order given                                                  *)
IsConcatenation(flat) ==
    /\ flat.t = "list"
    /\ Len(flat.v) = MrgOffset(Len(MrgGiven) + 1)
    /\ \A i \in 1..Len(MrgGiven) : \A k \in 1..Len(MrgGiven[i].v) :
          flat.v[MrgOffset(i) + k] = MrgGiven[i].v[k]

(* C16: MrgddbMaker.make, given a list of lists of directories, sets up    *)
(* the job, writes the mrgddb input and builds the restart job with the    *)
(* concatenation of the sublists: every directory of every sublist once,   *)
(* in the original order.                                                  *)
C16_Flattened ==
    MrgFirstRun =>
        /\ mrg.pc \in {"setup", "written", "ran", "parsed", "responded"} =>
              IsConcatenation(Get(mrg.prev_outputs))
        /\ mrg.input_set # None =>
              IsConcatenation(Get(mrg.input_set).prev_outputs)
        /\ (mrg.pc = "responded" /\ Get(mrg.response).replace # None) =>
              IsConcatenation(Get(Get(Get(mrg.response).replace).prev_outputs))

(* A failed merge of [[d1, d2], [d2]], whose restart job is built *)
C16_Witness ==
    /\ MrgFirstRun
    /\ mrg.pc = "responded"
    /\ Get(mrg.response).replace # None
    /\ Len(MrgGiven) = 2
    /\ Len(MrgGiven[1].v) = 2
    /\ Len(MrgGiven[2].v) = 1
    /\ MrgGiven[1].v[2] = MrgGiven[2].v[1]
    /\ Len(Get(mrg.input_set).prev_outputs.v) = 3

----------------------------------------------------------------------------
(* Properties of the functions of abinit/files.py *)

FinalStructureCalled ==
    fcall.function = "get_final_structure" /\ fcall.pc \in {"done", "raised"}

CalcDir == Get(fcall.dir)

Readable(f) == f # None /\ Get(f).readable

(* The stored input can stand for the final structure: the run moves no atom *)
InputUsable ==
    /\ CalcDir.input # None
    /\ RELAX \notin Get(CalcDir.input).runlevel
    /\ MOLECULAR_DYNAMICS \notin Get(CalcDir.input).runlevel

FinalStructureIs(s) == fcall.pc = "done" /\ Get(fcall.result).value = Some(s)

(* C17: get_final_structure returns the final structure of run.abo when it *)
(* exists and can be read; otherwise the structure of the GSR file when    *)
(* present and readable; otherwise the structure of the stored input when  *)
(* its runlevel has neither relaxation nor molecular dynamics; otherwise   *)
(* it raises RuntimeError.  A source that cannot be read is passed over.   *)
C17_FinalStructure ==
    FinalStructureCalled =>
        IF Readable(CalcDir.abo) THEN FinalStructureIs(Get(CalcDir.abo).structure)
        ELSE IF Readable(CalcDir.gsr) THEN FinalStructureIs(Get(CalcDir.gsr).structure)
        ELSE IF InputUsable THEN FinalStructureIs(Get(CalcDir.input).structure)
        ELSE /\ fcall.pc = "raised"
             /\ Get(fcall.result).value = None
             /\ IsInstance(Get(Get(fcall.result).error), "RuntimeError")

(* run.abo exists but cannot be read and the GSR file holds another        *)
(* structure, which is returned                                            *)
C17_Witness ==
    /\ FinalStructureCalled
    /\ CalcDir.abo # None
    /\ ~Get(CalcDir.abo).readable
    /\ Readable(CalcDir.gsr)
    /\ Get(CalcDir.gsr).structure # Get(CalcDir.abo).structure
    /\ CalcDir.input # None
    /\ Get(CalcDir.input).structure # Get(CalcDir.gsr).structure
    /\ FinalStructureIs(Get(CalcDir.gsr).structure)

OutToInCalled == fcall.function = "out_to_in" /\ fcall.pc \in {"loop", "done"}

(* The file operation made for the i-th pair of out_files *)
HandledAs(i, op) ==
    /\ fcall.operations[i].op = op
    /\ fcall.operations[i].src.path.abs
    /\ fcall.operations[i].src.path.parts =
           IF fcall.out_files[i][1].abs THEN fcall.out_files[i][1].parts
           ELSE Cwd.parts \o fcall.out_files[i][1].parts
    /\ fcall.operations[i].src.host = fcall.src_host
    /\ fcall.operations[i].dest =
           Path(TRUE, Cwd.parts \o fcall.indir.parts \o <<fcall.out_files[i][2]>>)

(* C19: out_to_in handles every pair of out_files once and in order,       *)
(* placing it at indir/<input filename>; the file is linked exactly when   *)
(* link_files is True and src_host is None and copied in every other case. *)
C19_OutToIn ==
    OutToInCalled =>
        /\ Len(fcall.operations) = fcall.n_handled
        /\ fcall.pc = "done" => fcall.n_handled = Len(fcall.out_files)
        /\ \A i \in 1..Len(fcall.operations) :
              IF fcall.link_files /\ fcall.src_host = None
              THEN HandledAs(i, "link")
              ELSE HandledAs(i, "copy")

(* Three files of a remote host, asked to be linked, have been copied *)
C19_Witness ==
    /\ fcall.function = "out_to_in"
    /\ fcall.pc = "done"
    /\ fcall.link_files
    /\ fcall.src_host # None
    /\ Len(fcall.out_files) = 3
    /\ fcall.out_files[1] # fcall.out_files[2]
    /\ Len(fcall.operations) = 3
    /\ fcall.operations[3].op = "copy"

----------------------------------------------------------------------------
(* Properties of the order of the steps and of the logging of setup_job *)

(* A run of the chain is between its setup and its response *)
InProgress == pc \in {"setup", "written", "ran", "parsed"}

(* The steps of make in the order of the code, and the hand-over of the    *)
(* replacement job                                                         *)
StepOrder ==
    {<<"pending", "setup">>, <<"pending", "raised">>, <<"setup", "written">>,
     <<"setup", "raised">>, <<"written", "ran">>, <<"ran", "parsed">>,
     <<"parsed", "responded">>, <<"responded", "pending">>}

Sequential ==
    /\ pc' # pc => <<pc, pc'>> \in StepOrder
    /\ runs' # runs => (~InProgress /\ pc = "pending" /\ runs' = runs + 1
                          /\ pc' \in {"setup", "raised"})
    /\ job' # job =>
          /\ pc = "responded"
          /\ task_doc # None
          /\ Get(response).output = task_doc
          /\ Get(response).replace = Some(job')
          /\ pc' = "pending"
    /\ task_doc' # task_doc =>
          \/ pc = "ran" /\ pc' = "parsed" /\ task_doc' # None
          \/ pc = "pending" /\ task_doc' = None
    /\ response' # response =>
          \/ pc = "parsed" /\ pc' = "responded" /\ response' # None
          \/ pc = "pending" /\ response' = None

(* C18: the steps of a run happen in the order set up job, write inputs,   *)
(* run abinit, parse outputs, decide response; the replacement job is      *)
(* handed over only after the run has been parsed and has responded, and a *)
(* run starts only when no run of the chain is in progress.                *)
C18_Sequential == [][Sequential]_vars

(* The second run of a chain has been parsed *)
C18_Witness ==
    /\ pc = "parsed"
    /\ runs = 2
    /\ replacements = 1
    /\ job.restart_from # None
    /\ job # first

(* The history handed to setup_job by the job that is set up *)
SetUp == job_config # None /\ pc \notin {"pending", "idle"}

(* C20: setup_job logs a restart exactly when a history is passed in and   *)
(* restart_from is not None; with history None the history is a fresh      *)
(* JobHistory without restart, whatever restart_from; one start is logged  *)
(* per run.  In a chain begun with a fresh history the k-th run has k-1    *)
(* logged restarts and k logged starts and its task document holds run     *)
(* number k.                                                               *)
C20_RestartLogging ==
    SetUp =>
        /\ job.history = None =>
              ThisHistory = [num_restarts |-> 0, num_starts |-> 1]
        /\ job.history # None =>
              /\ ThisHistory.num_starts = Get(job.history).num_starts + 1
              /\ ThisHistory.num_restarts =
                     Get(job.history).num_restarts
                         + (IF job.restart_from # None THEN 1 ELSE 0)
        /\ Fresh =>
              /\ ThisHistory.num_restarts = runs - 1
              /\ ThisHistory.num_starts = runs
              /\ runs = replacements + (IF pc = "responded"
                                           /\ Get(response).replace # None
                                        THEN 0 ELSE 1)
              /\ task_doc # None => Get(task_doc).run_number = runs

(* The third run of a chain begun without history but with restart_from *)
C20_Witness ==
    /\ SetUp
    /\ Fresh
    /\ first.restart_from # None
    /\ runs = 3
    /\ pc = "parsed"
    /\ Get(task_doc).run_number = 3
    /\ ThisHistory = [num_restarts |-> 2, num_starts |-> 3]

----------------------------------------------------------------------------
(* Properties of the guard of setup_job *)

(* The job that is running or has run was given nothing to start from *)
NothingGiven ==
    job.structure = None /\ job.prev_outputs = None /\ job.restart_from = None

(* setup_job of BaseAbinitMaker raises exactly when nothing is given, and  *)
(* then no history exists, nothing is written, run or parsed               *)
SetupJobGuard ==
    pc \notin {"idle", "pending"} =>
        /\ NothingGiven => (pc = "raised" /\ job_config = None /\ task_doc = None
                              /\ response = None)
        /\ ~NothingGiven => job_config # None

MrgNothingGiven ==
    /\ mrg.pc \notin {"idle", "pending"}
    /\ mrg.job.prev_outputs = None
    /\ mrg.job.restart_from = None

(* C21: setup_job raises RuntimeError when structure, prev_outputs and     *)
(* restart_from are all None, before the history is created and before     *)
(* anything is written or run, and does not raise it otherwise; the same   *)
(* RuntimeError is the outcome of MrgddbMaker.make called with neither     *)
(* prev_outputs nor restart_from.                                          *)
C21_NothingToStartFrom ==
    /\ SetupJobGuard
    /\ MrgNothingGiven =>
          /\ mrg.pc = "raised"
          /\ mrg.error = "RuntimeError"
          /\ mrg.config = None
          /\ mrg.input_set = None

----------------------------------------------------------------------------
(* Properties of the restart of the Merge-DDB job *)

MrgRestartBuilt == mrg.pc = "responded" /\ Get(mrg.response).replace # None

(* The list handed over to the restart job by get_response *)
MrgHandedOver == Get(Get(Get(mrg.response).replace).prev_outputs)

(* C22: a restarted Merge-DDB job merges the directories of the first run: *)
(* the flattening of make leaves the list handed over by get_response      *)
(* unchanged, and every run after the first uses the flattened list of the *)
(* first run.                                                              *)
C22_RestartMergesSameDirs ==
    /\ MrgRestartBuilt => Flatten(MrgHandedOver) = MrgHandedOver
    /\ (mrg.pc \notin {"idle", "pending"} /\ mrg.runs >= 2
           /\ mrg.first.prev_outputs # None) =>
          /\ mrg.pc # "raised"
          /\ mrg.prev_outputs = Some(Flatten(Get(mrg.first.prev_outputs)))


(* An optional message that is absent or empty comes back as None, any     *)
(* other one comes back unchanged                                          *)
SameMsg(before, after) ==
    IF TruthyStr(before) THEN after = before ELSE after = None

(* An optional list that is absent or empty comes back as None or as an    *)
(* empty list, any other one comes back with the same items                *)
SameList(before, after) ==
    IF TruthyList(before) THEN after = before
    ELSE after = None \/ after = Some(<<>>)

RoundTripDone == ser.pc = "done"

(* C23: from_dict(e.to_dict()) succeeds for every AbinitRuntimeError and   *)
(* every UnconvergedError e and yields an error of the same class with the *)
(* same msg, num_errors and num_warnings and, for an UnconvergedError, the *)
(* same abinit_input, restart_info and history; absent optional parts come *)
(* back as None or as empty lists.                                         *)
C23_ErrorRoundTrip ==
    RoundTripDone =>
        LET e == ser.error
            r == Get(ser.result)
        IN  /\ r.error = None
            /\ Get(r.value).error_code = e.error_code
            /\ SameMsg(e.msg, Get(r.value).msg)
            /\ Get(r.value).num_errors = e.num_errors
            /\ Get(r.value).num_warnings = e.num_warnings
            /\ SameList(e.errors, Get(r.value).errors)
            /\ SameList(e.warnings, Get(r.value).warnings)
            /\ e.error_code = "Unconverged" =>
                  /\ Get(r.value).abinit_input = e.abinit_input
                  /\ Get(r.value).restart_info = e.restart_info
                  /\ Get(r.value).history = e.history

(* The round trip of an AbinitRuntimeError alone *)
RuntimeErrorRoundTrip ==
    (RoundTripDone /\ ser.error.error_code = "Error") => C23_ErrorRoundTrip

(* The round trip of an UnconvergedError that has a message *)
UnconvergedWithMsgRoundTrip ==
    (RoundTripDone /\ ser.error.error_code = "Unconverged" /\ TruthyStr(ser.error.msg))
        => C23_ErrorRoundTrip

(* An UnconvergedError without a message: from_dict raises KeyError *)
UnconvergedNoMsgRaises ==
    (RoundTripDone /\ ser.error.error_code = "Unconverged" /\ ~TruthyStr(ser.error.msg))
        => Get(ser.result).error = Some("KeyError")

====
